---- MODULE Spec2Model ----
(***************************************************************************)
(* A model of the decision engine of rising-pmax-optimizer: the seasonal   *)
(* policy table (config/thresholds.py), the asset analyzer with its        *)
(* failure diagnosis, the budget recommendation engine and the emergency   *)
(* checks (src/analyzer.py), and the scoring and the asset health checks   *)
(* of the campaign auditor (src/campaign_auditor.py), the weekly review    *)
(* (lambda_functions/weekly_review.py with database/queries.py) and the    *)
(* image registry (src/image_manager.py).                                  *)
(*                                                                         *)
(* Units.  CTR values and CTR floors are hundredths of a percent (2.5% is  *)
(* 250).  Money is in cents (10.0 dollars is 1000).  ROAS is in whole      *)
(* percent.  Dates are day numbers; days_since is a difference of days.    *)
(* A dict is a function on its keys; a key that is absent stands for a     *)
(* missing, None or empty value.  A string that the code only formats is   *)
(* kept as a record of the values it is formatted from.                    *)
(*                                                                         *)
(* The specifications share the variables: Spec (one asset, every month:   *)
(* get_season_name, should_kill, is_new_asset), SpecFlag (asset lists:     *)
(* flag_underperformers), SpecDiagnose (diagnose_failure), SpecBudget      *)
(* (calculate_budget_recommendation), SpecEmergency                        *)
(* (check_emergency_conditions), SpecScore (_calculate_score) and          *)
(* SpecAssetHealth (_check_asset_health, then _calculate_score),           *)
(* SpecTrends (_check_performance_trends), SpecAuditAll (audit_all and its *)
(* summary), SpecPartial (the analyzer on partial records), SpecReview     *)
(* (the weekly review handler over the persistent tables) and              *)
(* SpecBootstrap (the image registry).                                     *)
(***************************************************************************)
EXTENDS Integers, Sequences, FiniteSets, TLC

VARIABLES
    pc,         \* "start" | "ready" (analyzer constructed) | "raised"
    month_arg,  \* the month given to AssetAnalyzer(month=...); 0 is None/0
    month,      \* self.month
    season,     \* self.season
    today,      \* the current day (Mountain Time)
    assets,     \* the asset dicts handed to the analyzer (mutated in place)
    graveyard,  \* the graveyard records handed to flag_underperformers
    ret,        \* what the last call returned or raised
    budget_in,  \* the arguments of calculate_budget_recommendation
    budget_ret, \* its latest result
    budget_prev, \* the call before the latest one: [args, result]
    budget_data, \* the snapshot handed to check_emergency_conditions
    history,    \* the earlier snapshots handed to it
    alerts,     \* the alerts it returned
    campaign,   \* what the auditor's queries return for the campaign
    findings,   \* the findings of the auditor's last check
    audit_ret,  \* the score and the grade of the auditor's last scoring
    event,      \* the arguments of the handler that ran last
    store,      \* the persistent tables, each a function on its keys
    review      \* what the handler that ran last returned and produced

vars == <<pc, month_arg, month, season, today, assets, graveyard, ret,
          budget_in, budget_ret, budget_prev, budget_data, history, alerts,
          campaign, findings, audit_ret, event, store, review>>

analyzer_vars == <<pc, month_arg, month, season, today, assets, graveyard, ret>>
budget_vars == <<budget_in, budget_ret, budget_prev>>
emergency_vars == <<budget_data, history, alerts>>
audit_vars == <<campaign, findings, audit_ret>>
review_vars == <<event, store, review>>

(***************************************************************************)
(* Python values                                                           *)
(***************************************************************************)
None == [kind |-> "None"]

\* dict.get(key, default)
Get(d, key, default) == IF key \in DOMAIN d THEN d[key] ELSE default

\* d with d[key] = value (the key is added when missing)
Put(d, key, value) ==
    [k \in (DOMAIN d) \cup {key} |-> IF k = key THEN value ELSE d[k]]

Raised(exc, what) == [kind |-> "raise", exc |-> exc, what |-> what]

IsRaise(v) == v.kind = "raise"

(***************************************************************************)
(* config/thresholds.py                                                    *)
(***************************************************************************)
\* the keys of THRESHOLDS in their insertion order (dict iteration order)
SeasonOrder == <<"deep_winter", "low_season", "shoulder_season", "peak_season">>

\* a table with a month left out of its season
SeasonMonths_gap(s) ==
    CASE s = "deep_winter" -> {1, 2}
      [] s = "low_season" -> {11, 12}
      [] s = "shoulder_season" -> {3, 4, 9}
      [] s = "peak_season" -> {5, 6, 7, 8}

\* the "months" list of each season
SeasonMonths(s) ==
    CASE s = "deep_winter" -> {1, 2}
      [] s = "low_season" -> {11, 12}
      [] s = "shoulder_season" -> {3, 4, 9, 10}
      [] s = "peak_season" -> {5, 6, 7, 8}

THRESHOLDS ==
    [s \in {"deep_winter", "low_season", "shoulder_season", "peak_season"} |->
        CASE s = "deep_winter" ->
                [months |-> SeasonMonths(s),
                 min_impressions |-> 150,
                 min_ctr_headline |-> 200,
                 min_ctr_long_headline |-> 100,
                 min_ctr_description |-> 300,
                 lookback_days |-> 60,
                 new_asset_patience_days |-> 60,
                 new_asset_patience_impressions |-> 500]
          [] s = "low_season" ->
                [months |-> SeasonMonths(s),
                 min_impressions |-> 150,
                 min_ctr_headline |-> 200,
                 min_ctr_long_headline |-> 100,
                 min_ctr_description |-> 300,
                 lookback_days |-> 60,
                 new_asset_patience_days |-> 60,
                 new_asset_patience_impressions |-> 500]
          [] s = "shoulder_season" ->
                [months |-> SeasonMonths(s),
                 min_impressions |-> 300,
                 min_ctr_headline |-> 300,
                 min_ctr_long_headline |-> 200,
                 min_ctr_description |-> 400,
                 lookback_days |-> 30,
                 new_asset_patience_days |-> 60,
                 new_asset_patience_impressions |-> 500]
          [] s = "peak_season" ->
                [months |-> SeasonMonths(s),
                 min_impressions |-> 500,
                 min_ctr_headline |-> 400,
                 min_ctr_long_headline |-> 250,
                 min_ctr_description |-> 500,
                 lookback_days |-> 30,
                 new_asset_patience_days |-> 60,
                 new_asset_patience_impressions |-> 500]]

\* get_season_name: the first season, in table order, whose months hold m
get_season_name(m) ==
    LET hits == {i \in 1..Len(SeasonOrder) : m \in THRESHOLDS[SeasonOrder[i]].months}
    IN  IF hits = {}
        THEN Raised("ValueError", "No season defined for month")
        ELSE [kind |-> "season",
              name |-> SeasonOrder[CHOOSE i \in hits : \A j \in hits : i <= j]]

\* get_thresholds, for a month get_season_name accepts
get_thresholds(m) == THRESHOLDS[get_season_name(m).name]

(***************************************************************************)
(* utils/date_helpers.py                                                   *)
(***************************************************************************)
\* days_since: whole days from the date to now
days_since(date_added, now) == now - date_added

(***************************************************************************)
(* src/analyzer.py: AssetAnalyzer                                          *)
(***************************************************************************)
\* self, once __init__ has run
Self == [month |-> month, season |-> season, thresholds |-> get_thresholds(month)]

\* is_new_asset with "or" for "and"
is_new_asset_or(self, asset, now) ==
    IF "date_added" \notin DOMAIN asset
    THEN FALSE
    ELSE \/ days_since(asset["date_added"], now) < self.thresholds.new_asset_patience_days
         \/ Get(asset, "impressions", 0) < self.thresholds.new_asset_patience_impressions

\* AssetAnalyzer.is_new_asset
is_new_asset(self, asset, now) ==
    IF "date_added" \notin DOMAIN asset
    THEN FALSE
    ELSE LET age_days == days_since(asset["date_added"], now)
             impressions == Get(asset, "impressions", 0)
             patience_days == self.thresholds.new_asset_patience_days
             patience_impr == self.thresholds.new_asset_patience_impressions
         IN  age_days < patience_days /\ impressions < patience_impr

\* the ctr_key lookup table of should_kill; "" stands for .get() giving None
CtrKey(asset_type) ==
    CASE asset_type = "HEADLINE" -> "min_ctr_headline"
      [] asset_type = "LONG_HEADLINE" -> "min_ctr_long_headline"
      [] asset_type = "DESCRIPTION" -> "min_ctr_description"
      [] asset_type = "MARKETING_IMAGE" -> "min_ctr_marketing_image"
      [] asset_type = "SQUARE_MARKETING_IMAGE" -> "min_ctr_square_marketing_image"
      [] asset_type = "PORTRAIT_MARKETING_IMAGE" -> "min_ctr_portrait_marketing_image"
      [] OTHER -> ""

\* the reason string of should_kill, kept as the values it formats
KillReason(ctr, season_name, min_ctr, asset_type, impressions) ==
    [kind |-> "reason", ctr |-> ctr, season |-> season_name, threshold |-> min_ctr,
     asset_type |-> asset_type, impressions |-> impressions]

\* should_kill without its "not enough data" return
should_kill_no_min(self, asset) ==
    LET asset_type == Get(asset, "asset_type", "HEADLINE")
        ctr_key == CtrKey(asset_type)
    IN  IF ctr_key # ""
        THEN IF ctr_key \notin DOMAIN self.thresholds
             THEN Raised("KeyError", ctr_key)
             ELSE IF Get(asset, "ctr", 0) < self.thresholds[ctr_key]
                  THEN KillReason(Get(asset, "ctr", 0), self.season,
                                  self.thresholds[ctr_key], asset_type,
                                  Get(asset, "impressions", 0))
                  ELSE None
        ELSE None

\* should_kill with "ctr <= min_ctr" for "ctr < min_ctr"
should_kill_le(self, asset) ==
    LET asset_type == Get(asset, "asset_type", "HEADLINE")
        ctr_key == CtrKey(asset_type)
    IN  IF Get(asset, "impressions", 0) < self.thresholds.min_impressions
        THEN None
        ELSE IF ctr_key # ""
             THEN IF ctr_key \notin DOMAIN self.thresholds
                  THEN Raised("KeyError", ctr_key)
                  ELSE IF Get(asset, "ctr", 0) <= self.thresholds[ctr_key]
                       THEN KillReason(Get(asset, "ctr", 0), self.season,
                                       self.thresholds[ctr_key], asset_type,
                                       Get(asset, "impressions", 0))
                       ELSE None
             ELSE None

\* AssetAnalyzer.should_kill: None, a reason, or the KeyError of
\* self.thresholds[ctr_key] when the season has no such key
should_kill(self, asset) ==
    LET asset_type == Get(asset, "asset_type", "HEADLINE")
        impressions == Get(asset, "impressions", 0)
        ctr == Get(asset, "ctr", 0)
        min_impressions == self.thresholds.min_impressions
        ctr_key == CtrKey(asset_type)
    IN  IF impressions < min_impressions
        THEN None
        ELSE IF ctr_key # ""
             THEN IF ctr_key \notin DOMAIN self.thresholds
                  THEN Raised("KeyError", ctr_key)
                  ELSE IF ctr < self.thresholds[ctr_key]
                       THEN KillReason(ctr, self.season, self.thresholds[ctr_key],
                                       asset_type, impressions)
                       ELSE None
             ELSE None

(***************************************************************************)
(* Text.  A string is the sequence of its characters.                      *)
(***************************************************************************)
UpperCase == <<"A", "B", "C", "D", "E", "F", "G", "H", "I", "J", "K", "L", "M",
               "N", "O", "P", "Q", "R", "S", "T", "U", "V", "W", "X", "Y", "Z">>
LowerCase == <<"a", "b", "c", "d", "e", "f", "g", "h", "i", "j", "k", "l", "m",
               "n", "o", "p", "q", "r", "s", "t", "u", "v", "w", "x", "y", "z">>

\* the lower-case letter of each upper-case letter
UpperToLower ==
    [c \in {UpperCase[k] : k \in 1..Len(UpperCase)} |->
        LowerCase[CHOOSE k \in 1..Len(UpperCase) : UpperCase[k] = c]]

\* str.lower()
Lower(text) ==
    [i \in 1..Len(text) |->
        IF text[i] \in DOMAIN UpperToLower THEN UpperToLower[text[i]] ELSE text[i]]

\* pattern in text
Contains(pattern, text) ==
    \E i \in 0..(Len(text) - Len(pattern)) :
        SubSeq(text, i + 1, i + Len(pattern)) = pattern

\* str.split(): the maximal runs of non-blank characters, in order
RECURSIVE SplitFrom(_, _, _)
SplitFrom(text, i, word) ==
    IF i > Len(text)
    THEN IF word = <<>> THEN <<>> ELSE <<word>>
    ELSE IF text[i] = " "
         THEN (IF word = <<>> THEN <<>> ELSE <<word>>) \o SplitFrom(text, i + 1, <<>>)
         ELSE SplitFrom(text, i + 1, Append(word, text[i]))

Split(text) == SplitFrom(text, 1, <<>>)

\* set(words)
SetOf(words) == {words[i] : i \in 1..Len(words)}

KNOWN_FAILURE_PATTERNS == <<
    <<"i", "n", "n", "o", "v", "a", "t", "i", "v", "e">>,
    <<"p", "r", "e", "m", "i", "e", "r">>,
    <<"t", "o", "p", "-", "o", "f", "-", "t", "h", "e", "-", "l", "i", "n",
    "e">>,
    <<"u", "n", "m", "a", "t", "c", "h", "e", "d">>,
    <<"e", "x", "p", "e", "r", "i", "e", "n", "c", "e">>,
    <<"d", "e", "s", "t", "i", "n", "a", "t", "i", "o", "n">>,
    <<"s", "e", "r", "i", "o", "u", "s", " ", "a", "n", "g", "l", "e", "r",
    "s">>,
    <<"m", "o", "n", "s", "t", "e", "r", "s">>>>

\* gatekeeping_words of diagnose_failure
gatekeeping_words == <<
    <<"s", "e", "r", "i", "o", "u", "s">>,
    <<"e", "l", "i", "t", "e">>,
    <<"p", "r", "o", "f", "e", "s", "s", "i", "o", "n", "a", "l">>,
    <<"e", "x", "p", "e", "r", "t">>,
    <<"a", "d", "v", "a", "n", "c", "e", "d">>>>

(***************************************************************************)
(* src/analyzer.py: diagnose_failure and flag_underperformers              *)
(***************************************************************************)
\* a diagnosis string, kept as its category, the rule that gave it and the
\* text it quotes
Diagnosis(category, rule, quoted) ==
    [kind |-> "diagnosis", category |-> category, rule |-> rule, quoted |-> quoted]

\* the first index of 1..n that satisfies the test, 0 when there is none
FirstIn(hits) == IF hits = {} THEN 0 ELSE CHOOSE i \in hits : \A j \in hits : i <= j

\* the "share 50%+ words" test of diagnose_failure: overlap > 0.5
SimilarWords(asset_words, grave_words) ==
    /\ asset_words # {}
    /\ grave_words # {}
    /\ 2 * Cardinality(asset_words \cap grave_words) > Cardinality(asset_words)

\* the text rules with the gatekeeping words tried before the word count
DiagnoseText_gate_before_short(asset_type, text, words, graves) ==
    LET hype == FirstIn({i \in 1..Len(KNOWN_FAILURE_PATTERNS) :
                            Contains(Lower(KNOWN_FAILURE_PATTERNS[i]), text)})
        gate == FirstIn({i \in 1..Len(gatekeeping_words) :
                            Contains(gatekeeping_words[i], text)})
    IN  IF hype # 0
        THEN Diagnosis("voice", "hype", KNOWN_FAILURE_PATTERNS[hype])
        ELSE IF gate # 0
        THEN Diagnosis("voice", "gatekeeping", gatekeeping_words[gate])
        ELSE IF Len(words) <= 2 /\ asset_type = "LONG_HEADLINE"
        THEN Diagnosis("specificity", "short", <<>>)
        ELSE Diagnosis("angle", "default", <<>>)

\* the text rules of diagnose_failure, on the lower-cased text
DiagnoseText(asset_type, text, words, graves) ==
    LET hype == FirstIn({i \in 1..Len(KNOWN_FAILURE_PATTERNS) :
                            Contains(Lower(KNOWN_FAILURE_PATTERNS[i]), text)})
        word_count == Len(words)
        gate == FirstIn({i \in 1..Len(gatekeeping_words) :
                            Contains(gatekeeping_words[i], text)})
        similar == FirstIn({i \in 1..Len(graves) :
                            SimilarWords(SetOf(words),
                                SetOf(Split(Lower(Get(graves[i], "asset_text", <<>>)))))})
    IN  IF hype # 0
        THEN Diagnosis("voice", "hype", KNOWN_FAILURE_PATTERNS[hype])
        ELSE IF word_count <= 2 /\ asset_type = "LONG_HEADLINE"
        THEN Diagnosis("specificity", "short", <<>>)
        ELSE IF gate # 0
        THEN Diagnosis("voice", "gatekeeping", gatekeeping_words[gate])
        ELSE IF similar # 0
        THEN Diagnosis("angle", "similar", Get(graves[similar], "asset_text", <<>>))
        ELSE Diagnosis("angle", "default", <<>>)

\* diagnose_failure with the portrait images analysed as text
diagnose_failure_two_image_types(asset, graves) ==
    LET asset_type == Get(asset, "asset_type", "")
    IN  IF asset_type \in {"MARKETING_IMAGE", "SQUARE_MARKETING_IMAGE"}
        THEN Diagnosis("visual_fatigue", "image", <<>>)
        ELSE LET text == Lower(Get(asset, "asset_text", <<>>))
             IN  DiagnoseText(asset_type, text, Split(text), graves)

\* AssetAnalyzer.diagnose_failure
diagnose_failure(asset, graves) ==
    LET asset_type == Get(asset, "asset_type", "")
    IN  IF asset_type \in {"MARKETING_IMAGE", "SQUARE_MARKETING_IMAGE",
                           "PORTRAIT_MARKETING_IMAGE"}
        THEN Diagnosis("visual_fatigue", "image", <<>>)
        ELSE LET text == Lower(Get(asset, "asset_text", <<>>))
             IN  DiagnoseText(asset_type, text, Split(text), graves)

\* the status test with "paused" forgotten
IsKilledOrPaused_killed_only(asset) == Get(asset, "status", "None") = "killed"

\* the status test that also skips an asset that already has a kill_reason
IsKilledOrPaused_or_flagged(asset) ==
    Get(asset, "status", "None") \in {"killed", "paused"} \/ "kill_reason" \in DOMAIN asset

\* asset.get("status") in ("killed", "paused")
IsKilledOrPaused(asset) == Get(asset, "status", "None") \in {"killed", "paused"}

\* The loop of flag_underperformers from index i on: the assets as mutated, the
\* indices of the flagged ones in order (the returned list holds the same
\* dict objects) and the exception that ended it, if any.
RECURSIVE FlagLoop(_, _, _, _, _, _)
FlagLoop(self, list, graves, now, i, flagged) ==
    IF i > Len(list)
    THEN [assets |-> list, flagged |-> flagged, raised |-> None]
    ELSE IF is_new_asset(self, list[i], now)
    THEN FlagLoop(self, list, graves, now, i + 1, flagged)
    ELSE IF IsKilledOrPaused(list[i])
    THEN FlagLoop(self, list, graves, now, i + 1, flagged)
    ELSE LET kill_reason == should_kill(self, list[i])
         IN  IF IsRaise(kill_reason)
             THEN [assets |-> list, flagged |-> flagged, raised |-> kill_reason]
             ELSE IF kill_reason # None
             THEN LET stamped == Put(list[i], "kill_reason", kill_reason)
                      diagnosed == Put(stamped, "diagnosis",
                                       diagnose_failure(stamped, graves))
                  IN  FlagLoop(self, [list EXCEPT ![i] = diagnosed], graves, now,
                               i + 1, Append(flagged, i))
             ELSE FlagLoop(self, list, graves, now, i + 1, flagged)

\* AssetAnalyzer.flag_underperformers
flag_underperformers(self, list, graves, now) ==
    FlagLoop(self, list, graves, now, 1, <<>>)

(***************************************************************************)
(* Inputs                                                                  *)
(***************************************************************************)
MonthArgs == 0..13
CurrentMonths == 1..12
TodayVals == {60}
DateVals == {0, 1, 2, 61}

AssetTypes == {"HEADLINE", "LONG_HEADLINE", "DESCRIPTION", "MARKETING_IMAGE",
               "SQUARE_MARKETING_IMAGE", "PORTRAIT_MARKETING_IMAGE"}
ImageTypes == {"MARKETING_IMAGE", "SQUARE_MARKETING_IMAGE", "PORTRAIT_MARKETING_IMAGE"}
ImpressionVals == {149, 150, 299, 300, 499, 500, 600}
CtrVals == {0, 99, 100, 199, 200, 249, 250, 299, 300, 399, 400, 499, 500}

\* a full record, as the collector builds it
Asset(type, impressions, ctr, conversions, cost, status, date_added) ==
    [asset_type |-> type, impressions |-> impressions, ctr |-> ctr,
     conversions |-> conversions, cost |-> cost,
     cpa |-> IF conversions = 0 THEN 0 ELSE cost \div conversions,
     status |-> status, date_added |-> date_added]

\* d without the key
Drop(d, key) == [k \in (DOMAIN d) \ {key} |-> d[k]]

\* assets that exercise should_kill: every type (and an unknown one, and none),
\* impressions and CTR around every season's floors, with and without
\* conversions and cost
KillAssets ==
    LET full == {Asset(t, i, c, m[1], m[2], "active", 0) :
                    t \in AssetTypes \cup {"YOUTUBE_VIDEO"},
                    i \in ImpressionVals, c \in CtrVals,
                    m \in {<<0, 0>>, <<2, 5000>>}}
    IN  full \cup {Drop(a, "asset_type") : a \in {b \in full : b.asset_type = "HEADLINE"}}

\* assets that exercise is_new_asset: ages around the patience days,
\* impressions around the patience impressions, and no date_added at all
NewAssets ==
    LET full == {Asset("HEADLINE", i, c, 0, 0, "active", d) :
                    i \in {0, 499, 500, 600}, c \in {0, 500}, d \in DateVals}
    IN  full \cup {Drop(a, "date_added") : a \in full}

NoCall == [op |-> "none"]
BudgetIdle == [kind |-> "None"]

\* the variables of the operations a specification does not exercise
AnalyzerUnused(at) ==
    /\ pc = at
    /\ month_arg = 0
    /\ month = 0
    /\ season = ""
    /\ today \in TodayVals
    /\ assets = <<>>
    /\ graveyard = <<>>
    /\ ret = NoCall

BudgetUnused ==
    /\ budget_in = BudgetIdle
    /\ budget_ret = BudgetIdle
    /\ budget_prev = BudgetIdle

EmergencyUnused ==
    /\ budget_data = NoCall
    /\ history = <<>>
    /\ alerts = NoCall

AuditUnused ==
    /\ campaign = NoCall
    /\ findings = <<>>
    /\ audit_ret = NoCall

ReviewUnused ==
    /\ event = NoCall
    /\ store = NoCall
    /\ review = NoCall

InitAnalyzer(months, lists, graves) ==
    /\ pc = "start"
    /\ month_arg \in months
    /\ month = 0
    /\ season = ""
    /\ today \in TodayVals
    /\ assets \in lists
    /\ graveyard \in graves
    /\ ret = NoCall
    /\ budget_in = BudgetIdle
    /\ budget_ret = BudgetIdle
    /\ budget_prev = BudgetIdle
    /\ EmergencyUnused
    /\ AuditUnused
    /\ ReviewUnused

Init == InitAnalyzer(MonthArgs, {<<a>> : a \in KillAssets \cup NewAssets}, {<<>>})

(***************************************************************************)
(* Operations                                                              *)
(***************************************************************************)
\* AssetAnalyzer.__init__: month or get_current_month(), then the season
Construct ==
    /\ pc = "start"
    /\ \E m \in (IF month_arg = 0 THEN CurrentMonths ELSE {month_arg}) :
          LET s == get_season_name(m)
          IN  /\ month' = m
              /\ IF IsRaise(s)
                 THEN /\ pc' = "raised"
                      /\ season' = ""
                      /\ ret' = [op |-> "__init__", arg |-> m, value |-> s]
                 ELSE /\ pc' = "ready"
                      /\ season' = s.name
                      /\ ret' = [op |-> "__init__", arg |-> m, value |-> None]
    /\ UNCHANGED <<month_arg, today, assets, graveyard>>
    /\ UNCHANGED <<budget_vars, emergency_vars, audit_vars>>
    /\ UNCHANGED review_vars

\* a direct call of get_season_name(month), before any analyzer is built
GetSeasonName ==
    /\ pc = "start"
    /\ ret' = [op |-> "get_season_name", arg |-> month_arg,
               value |-> get_season_name(month_arg)]
    /\ UNCHANGED <<pc, month_arg, month, season, today, assets, graveyard>>
    /\ UNCHANGED <<budget_vars, emergency_vars, audit_vars>>
    /\ UNCHANGED review_vars

\* analyzer.should_kill(assets[i])
ShouldKill ==
    /\ pc = "ready"
    /\ \E i \in 1..Len(assets) :
          ret' = [op |-> "should_kill", arg |-> i, value |-> should_kill(Self, assets[i])]
    /\ UNCHANGED <<pc, month_arg, month, season, today, assets, graveyard>>
    /\ UNCHANGED <<budget_vars, emergency_vars, audit_vars>>
    /\ UNCHANGED review_vars

\* analyzer.is_new_asset(assets[i])
IsNewAsset ==
    /\ pc = "ready"
    /\ \E i \in 1..Len(assets) :
          ret' = [op |-> "is_new_asset", arg |-> i,
                  value |-> [kind |-> "bool",
                             value |-> is_new_asset(Self, assets[i], today)]]
    /\ UNCHANGED <<pc, month_arg, month, season, today, assets, graveyard>>
    /\ UNCHANGED <<budget_vars, emergency_vars, audit_vars>>
    /\ UNCHANGED review_vars

Next == Construct \/ GetSeasonName \/ ShouldKill \/ IsNewAsset

Spec == Init /\ [][Next]_vars

(***************************************************************************)
(* Inputs of flag_underperformers                                          *)
(***************************************************************************)
TextInnovativeNets ==
    <<"I", "n", "n", "o", "v", "a", "t", "i", "v", "e", " ", "N", "e",
    "t", "s">>

TextFlyNets ==
    <<"F", "l", "y", " ", "N", "e", "t", "s">>

TextNiceFishingStuff ==
    <<"N", "i", "c", "e", " ", "F", "i", "s", "h", "i", "n", "g", " ",
    "S", "t", "u", "f", "f">>

TextImageName ==
    <<"r", "i", "v", "e", "r", "-", "s", "h", "o", "t", "-", "0", "3">>

TextFlyRods ==
    <<"F", "l", "y", " ", "R", "o", "d", "s">>

TextNiceFishingNets ==
    <<"N", "i", "c", "e", " ", "F", "i", "s", "h", "i", "n", "g", " ",
    "N", "e", "t", "s">>

\* the longest asset list handed to flag_underperformers
MaxAssets == 2

\* one month of each season
FlagMonths == {2, 4, 6, 11}

TextAsset(type, text, impressions, ctr, status, date_added) ==
    Put(Asset(type, impressions, ctr, 0, 0, status, date_added), "asset_text", text)

\* old and young, active, killed and paused, text and image assets, above and
\* below the floors; one without date_added and one without status
\* (today is day 60: date_added 0 is 60 days old, date_added 1 is 59)
FlagAssets ==
    {TextAsset("HEADLINE", TextInnovativeNets, 600, 50, "active", 0),
     TextAsset("HEADLINE", TextNiceFishingStuff, 600, 600, "active", 0),
     TextAsset("LONG_HEADLINE", TextFlyNets, 600, 150, "active", 0),
     TextAsset("HEADLINE", TextFlyNets, 600, 50, "killed", 0),
     TextAsset("DESCRIPTION", TextNiceFishingStuff, 600, 50, "paused", 0),
     TextAsset("HEADLINE", TextNiceFishingStuff, 499, 50, "active", 1),
     TextAsset("HEADLINE", TextNiceFishingStuff, 600, 50, "active", 1),
     TextAsset("MARKETING_IMAGE", TextImageName, 600, 50, "active", 0),
     TextAsset("SQUARE_MARKETING_IMAGE", TextImageName, 149, 50, "active", 0),
     TextAsset("PORTRAIT_MARKETING_IMAGE", TextImageName, 600, 50, "paused", 0),
     Drop(TextAsset("DESCRIPTION", TextFlyNets, 600, 50, "active", 0), "date_added"),
     Drop(TextAsset("HEADLINE", TextInnovativeNets, 600, 50, "active", 0), "status")}

Grave(text) == [asset_text |-> text, asset_type |-> "HEADLINE"]

FlagGraveyards ==
    {<<>>, <<Grave(TextFlyRods)>>, <<Grave(TextFlyRods), Grave(TextNiceFishingNets)>>}

\* the lists of at most n elements of S
ListsUpTo(S, n) == UNION {[1..k -> S] : k \in 0..n}

InitFlag == InitAnalyzer(FlagMonths, ListsUpTo(FlagAssets, MaxAssets), FlagGraveyards)

\* analyzer.flag_underperformers(assets, graveyard)
FlagUnderperformers ==
    /\ pc = "ready"
    /\ LET r == flag_underperformers(Self, assets, graveyard, today)
       IN  /\ assets' = r.assets
           /\ ret' = [op |-> "flag_underperformers",
                      before |-> assets,
                      value |-> IF IsRaise(r.raised)
                                THEN r.raised
                                ELSE [kind |-> "list", items |-> r.flagged]]
    /\ UNCHANGED <<pc, month_arg, month, season, today, graveyard>>
    /\ UNCHANGED <<budget_vars, emergency_vars, audit_vars>>
    /\ UNCHANGED review_vars

NextFlag == Construct \/ FlagUnderperformers

SpecFlag == InitFlag /\ [][NextFlag]_vars

(***************************************************************************)
(* Inputs of diagnose_failure                                              *)
(***************************************************************************)
\* 'Innovative Premium Fishing Nets'
TextInnovativePremium ==
    <<"I", "n", "n", "o", "v", "a", "t", "i", "v", "e", " ", "P", "r", "e",
    "m", "i", "u", "m", " ", "F", "i", "s", "h", "i", "n", "g", " ", "N",
    "e", "t", "s">>

\* 'Unmatched Premier Nets'
TextUnmatchedPremier ==
    <<"U", "n", "m", "a", "t", "c", "h", "e", "d", " ", "P", "r", "e", "m",
    "i", "e", "r", " ", "N", "e", "t", "s">>

\* 'Serious Anglers'
TextSeriousAnglers ==
    <<"S", "e", "r", "i", "o", "u", "s", " ", "A", "n", "g", "l", "e", "r",
    "s">>

\* 'Elite Nets'
TextEliteNets ==
    <<"E", "l", "i", "t", "e", " ", "N", "e", "t", "s">>

\* 'Expert Elite Fly Nets'
TextExpertElite ==
    <<"E", "x", "p", "e", "r", "t", " ", "E", "l", "i", "t", "e", " ", "F",
    "l", "y", " ", "N", "e", "t", "s">>

\* 'Big Fly Nets Sale'
TextBigFlyNetsSale ==
    <<"B", "i", "g", " ", "F", "l", "y", " ", "N", "e", "t", "s", " ", "S",
    "a", "l", "e">>

\* 'PROFESSIONALS welcome here'
TextProfessionals ==
    <<"P", "R", "O", "F", "E", "S", "S", "I", "O", "N", "A", "L", "S", " ",
    "w", "e", "l", "c", "o", "m", "e", " ", "h", "e", "r", "e">>

\* ''
TextEmpty ==
    <<>>

DiagnoseTexts ==
    {TextInnovativePremium, TextUnmatchedPremier, TextSeriousAnglers,
     TextEliteNets, TextExpertElite, TextBigFlyNetsSale, TextProfessionals,
     TextEmpty, TextFlyNets, TextNiceFishingStuff}

\* every type with every text, and every type without asset_text
DiagnoseAssets ==
    LET full == {TextAsset(t, x, 600, 50, "active", 0) :
                    t \in AssetTypes, x \in DiagnoseTexts}
    IN  full \cup {Drop(a, "asset_text") : a \in {b \in full : b.asset_text = TextEmpty}}

\* graveyards in which the first similar entry is not the most similar one,
\* an entry shares exactly half of the words, or an entry has no text
DiagnoseGraveyards ==
    {<<>>,
     <<Grave(TextFlyRods)>>,
     <<Grave(TextFlyRods), Grave(TextFlyNets)>>,
     <<Grave(TextFlyNets), Grave(TextNiceFishingNets)>>,
     <<Grave(TextNiceFishingNets), Grave(TextNiceFishingStuff)>>,
     <<[asset_type |-> "HEADLINE"], Grave(TextEmpty), Grave(TextNiceFishingNets)>>,
     <<Grave(TextSeriousAnglers), Grave(TextEliteNets)>>}

InitDiagnose == InitAnalyzer({6}, {<<a>> : a \in DiagnoseAssets}, DiagnoseGraveyards)

\* analyzer.diagnose_failure(assets[i], graveyard)
DiagnoseFailure ==
    /\ pc = "ready"
    /\ \E i \in 1..Len(assets) :
          ret' = [op |-> "diagnose_failure", arg |-> i,
                  value |-> diagnose_failure(assets[i], graveyard)]
    /\ UNCHANGED <<pc, month_arg, month, season, today, assets, graveyard>>
    /\ UNCHANGED <<budget_vars, emergency_vars, audit_vars>>
    /\ UNCHANGED review_vars

NextDiagnose == Construct \/ DiagnoseFailure

SpecDiagnose == InitDiagnose /\ [][NextDiagnose]_vars

(***************************************************************************)
(* src/analyzer.py: calculate_budget_recommendation                        *)
(*                                                                         *)
(* Budgets and spend are whole cents, ROAS values whole percents.  The     *)
(* code computes in IEEE doubles; for whole r and t > 0 the comparison of  *)
(* fl(fl(r/t) - 1) with a breakpoint agrees with the comparison of the     *)
(* exact quotient except where r/t - 1 equals the breakpoint, and there    *)
(* the doubles decide: fl(1.1) - 1 >= fl(0.10) and fl(0.9) - 1 >= fl(-0.10)*)
(* hold, while fl(0.7) - 1 = -0.30000000000000004 < fl(-0.30).             *)
(***************************************************************************)
\* the $10/day the engine falls back to, in cents
MIN_BUDGET == 1000
\* the $100 above which the market-ceiling check applies, in cents
CEILING_MIN_BUDGET == 10000
\* the target ROAS used when target_roas <= 0
DEFAULT_TARGET_ROAS == 200

\* round(x, 2) of num/den dollars-in-cents, for num >= 0 (no tie occurs for
\* the 0.20 steps of a whole number of cents)
RoundCents(num, den) == (2 * num + den) \div (2 * den)

\* utilization < 80
UtilizationBelow80(actual_daily_spend_avg, current_daily_budget) ==
    100 * actual_daily_spend_avg < 80 * current_daily_budget

\* roas_performance >= 0.10
PerfAtLeastPlus10(current_roas, target_roas) == 10 * current_roas >= 11 * target_roas

\* roas_performance >= -0.10
PerfAtLeastMinus10(current_roas, target_roas) == 10 * current_roas >= 9 * target_roas

\* roas_performance >= -0.30: false at current_roas = 0.7 * target_roas, where
\* the double (current_roas / target_roas) - 1 is -0.30000000000000004
PerfAtLeastMinus30(current_roas, target_roas) == 10 * current_roas > 7 * target_roas

BudgetResult(action, recommended_budget, reason, ceiling) ==
    [action |-> action, recommended_budget |-> recommended_budget,
     reason |-> reason, market_ceiling_detected |-> ceiling]

\* the decrease branch without its max(..., 10.0)
DecreaseBranch_no_floor(current_daily_budget) ==
    BudgetResult("decrease", RoundCents(80 * current_daily_budget, 100),
                 "below target", FALSE)

\* the decrease branch
DecreaseBranch(current_daily_budget) ==
    LET reduced == RoundCents(80 * current_daily_budget, 100)
    IN  BudgetResult("decrease",
                     IF reduced > MIN_BUDGET THEN reduced ELSE MIN_BUDGET,
                     "below target", FALSE)

\* the branches on roas_performance, reached when the ceiling check is passed
RoasBranches(current_daily_budget, current_roas, target_roas) ==
    LET target == IF target_roas <= 0 THEN DEFAULT_TARGET_ROAS ELSE target_roas
    IN  IF PerfAtLeastPlus10(current_roas, target)
        THEN BudgetResult("increase", RoundCents(120 * current_daily_budget, 100),
                          "exceeds target", FALSE)
        ELSE IF PerfAtLeastMinus10(current_roas, target)
        THEN BudgetResult("hold", current_daily_budget, "on target", FALSE)
        ELSE IF PerfAtLeastMinus30(current_roas, target)
        THEN DecreaseBranch(current_daily_budget)
        ELSE BudgetResult("pause", MIN_BUDGET, "critically low", FALSE)

\* the engine with the ROAS branches tried before the market-ceiling check
calculate_budget_recommendation_roas_first(current_daily_budget, actual_daily_spend_avg, current_roas, target_roas, season_name) ==
    IF current_daily_budget <= 0
    THEN BudgetResult("hold", MIN_BUDGET, "no budget set", FALSE)
    ELSE LET r == RoasBranches(current_daily_budget, current_roas, target_roas)
         IN  IF r.action # "hold"
             THEN r
             ELSE IF /\ UtilizationBelow80(actual_daily_spend_avg, current_daily_budget)
                     /\ current_daily_budget > CEILING_MIN_BUDGET
                  THEN BudgetResult("hold", current_daily_budget, "market ceiling", TRUE)
                  ELSE r

\* calculate_budget_recommendation
calculate_budget_recommendation(current_daily_budget, actual_daily_spend_avg, current_roas, target_roas, season_name) ==
    IF current_daily_budget <= 0
    THEN BudgetResult("hold", MIN_BUDGET, "no budget set", FALSE)
    ELSE IF /\ UtilizationBelow80(actual_daily_spend_avg, current_daily_budget)
            /\ current_daily_budget > CEILING_MIN_BUDGET
    THEN BudgetResult("hold", current_daily_budget, "market ceiling", TRUE)
    ELSE RoasBranches(current_daily_budget, current_roas, target_roas)

BudgetVals == {-500, 0, 500, 834, 900, 1000, 1200, 1234, 10000, 10001, 30000}
SpendVals == {0, 5000, 8000, 8001, 9500, 23999, 24000}
RoasVals == {-10, 0, 50, 104, 105, 134, 135, 139, 140, 160, 165, 179, 180, 200,
             219, 220, 250}
TargetRoasVals == {-100, 0, 150, 200}

BudgetArgs(b, s, r, t) ==
    [current_daily_budget |-> b, actual_daily_spend_avg |-> s,
     current_roas |-> r, target_roas |-> t, season |-> "peak_season"]

InitBudget ==
    /\ pc = "budget"
    /\ month_arg = 0
    /\ month = 0
    /\ season = ""
    /\ today \in TodayVals
    /\ assets = <<>>
    /\ graveyard = <<>>
    /\ ret = NoCall
    /\ budget_in \in {BudgetArgs(b, s, r, t) :
                        b \in BudgetVals, s \in SpendVals,
                        r \in RoasVals, t \in TargetRoasVals}
    /\ budget_ret = BudgetIdle
    /\ budget_prev = BudgetIdle
    /\ EmergencyUnused
    /\ AuditUnused
    /\ ReviewUnused

Apply(args) ==
    calculate_budget_recommendation(args.current_daily_budget,
                                    args.actual_daily_spend_avg,
                                    args.current_roas, args.target_roas, args.season)

\* the first call, on the arguments drawn
Recommend ==
    /\ pc = "budget"
    /\ budget_ret = BudgetIdle
    /\ budget_ret' = Apply(budget_in)
    /\ UNCHANGED <<budget_in, budget_prev>>
    /\ UNCHANGED <<analyzer_vars, emergency_vars, audit_vars>>
    /\ UNCHANGED review_vars

\* a further call with another current_roas and the other arguments unchanged
RecommendAgain ==
    /\ pc = "budget"
    /\ budget_ret # BudgetIdle
    /\ \E r \in RoasVals :
          /\ budget_in' = [budget_in EXCEPT !.current_roas = r]
          /\ budget_ret' = Apply(budget_in')
    /\ budget_prev' = [args |-> budget_in, result |-> budget_ret]
    /\ UNCHANGED <<analyzer_vars, emergency_vars, audit_vars>>
    /\ UNCHANGED review_vars

NextBudget == Recommend \/ RecommendAgain

SpecBudget == InitBudget /\ [][NextBudget]_vars

(***************************************************************************)
(* src/analyzer.py: check_emergency_conditions                             *)
(*                                                                         *)
(* CTRs are hundredths of a percent, money is whole cents, ROAS and        *)
(* utilization are whole percents.  The code averages in IEEE doubles:     *)
(* current_ctr < (sum / len) * 0.5 agrees with the exact comparison over   *)
(* the CTR values drawn below except where current_ctr is exactly half of  *)
(* the average and the doubles come out above it: 0.2 + 0.4 is             *)
(* 0.6000000000000001 and 0.4 + 0.4 + 0.4 is 1.2000000000000002, so that   *)
(* 0.15 and 0.2 compare below half of those averages.                      *)
(***************************************************************************)
RECURSIVE SumSeq(_)
SumSeq(s) == IF s = <<>> THEN 0 ELSE Head(s) + SumSeq(Tail(s))

\* history[:4]
FirstFour(hist) == SubSeq(hist, 1, IF Len(hist) < 4 THEN Len(hist) ELSE 4)

\* h.get("avg_ctr") is truthy
HasCtr(h) == Get(h, "avg_ctr", 0) # 0

\* [float(h.get("avg_ctr", 0)) for h in history[:4] if h.get("avg_ctr")]
RecentCtrs(hist) ==
    LET kept == SelectSeq(FirstFour(hist), HasCtr)
    IN  [i \in 1..Len(kept) |-> kept[i].avg_ctr]

\* the recent_ctrs drawn below whose half average is rounded upwards
HalfAverageRoundedUp == {<<20, 40>>, <<40, 20>>, <<40, 40, 40>>}

\* current_ctr < (avg_recent_ctr * 0.5), as the doubles decide it
BelowHalfAverage(current_ctr, recent_ctrs) ==
    \/ 2 * Len(recent_ctrs) * current_ctr < SumSeq(recent_ctrs)
    \/ /\ 2 * Len(recent_ctrs) * current_ctr = SumSeq(recent_ctrs)
       /\ recent_ctrs \in HalfAverageRoundedUp

CtrAlert == [severity |-> "HIGH", title |-> "CTR Dropped 50%+ Week-Over-Week"]

RunawayAlert(target_budget) ==
    [severity |-> "HIGH", title |-> "Spending 2x Budget with Low ROAS",
     auto_action |-> [set_daily_budget_to |-> target_budget]]

CeilingAlert == [severity |-> "INFO", title |-> "Market Ceiling Detected"]

\* Alert 1: CTR collapse
CtrCollapse(data, hist) ==
    IF Len(hist) >= 2
    THEN LET current_ctr == Get(data, "avg_ctr", 0)
             recent_ctrs == RecentCtrs(hist)
         IN  IF /\ recent_ctrs # <<>>
                /\ SumSeq(recent_ctrs) > 0
                /\ BelowHalfAverage(current_ctr, recent_ctrs)
             THEN <<CtrAlert>>
             ELSE <<>>
    ELSE <<>>

\* the runaway test without the ROAS condition
BudgetRunaway_any_roas(data) ==
    LET daily_spend == Get(data, "actual_daily_spend_avg", 0)
        target_budget == Get(data, "daily_budget_target", 0)
    IN  IF target_budget > 0 /\ daily_spend > target_budget * 2
        THEN <<RunawayAlert(target_budget)>>
        ELSE <<>>

\* Alert 3: budget runaway
BudgetRunaway(data) ==
    LET daily_spend == Get(data, "actual_daily_spend_avg", 0)
        target_budget == Get(data, "daily_budget_target", 0)
        roas == Get(data, "roas_percent", 0)
        target_roas == Get(data, "target_roas_percent", 200)
    IN  IF target_budget > 0 /\ daily_spend > target_budget * 2 /\ roas < target_roas
        THEN <<RunawayAlert(target_budget)>>
        ELSE <<>>

\* Alert 4: market ceiling
MarketCeiling(data) ==
    LET target_budget == Get(data, "daily_budget_target", 0)
        utilization == Get(data, "budget_utilization_percent", 100)
    IN  IF utilization < 80 /\ target_budget > 10000
        THEN <<CeilingAlert>>
        ELSE <<>>

\* the checks with the market ceiling reported only when nothing else is
check_emergency_conditions_ceiling_last(data, asset_data, hist) ==
    LET high == CtrCollapse(data, hist) \o BudgetRunaway(data)
    IN  IF high # <<>> THEN high ELSE MarketCeiling(data)

\* check_emergency_conditions(budget_data, asset_data, history); asset_data is
\* not read, and a history of None is the empty list
check_emergency_conditions(data, asset_data, hist) ==
    CtrCollapse(data, hist) \o BudgetRunaway(data) \o MarketCeiling(data)

(***************************************************************************)
(* Inputs of check_emergency_conditions                                    *)
(***************************************************************************)
\* a dict with no keys
EmptyDict == [k \in {} |-> 0]

\* the dicts that hold the key with one of the values, and the one without it
Optional(key, values) == {EmptyDict} \cup {[k \in {key} |-> v] : v \in values}

Snapshot(ctr) == [campaign_name |-> "rising"] @@ ctr

\* a snapshot with the CTR, 0 for a CTR of 0 and -1 for a snapshot without avg_ctr
Week(ctr) ==
    IF ctr < 0 THEN Snapshot(EmptyDict) ELSE Snapshot([avg_ctr |-> ctr])

Weeks(ctrs) == [i \in 1..Len(ctrs) |-> Week(ctrs[i])]

\* no history, one week, steady weeks, weeks whose half average is rounded,
\* weeks with a zero or missing CTR, and more than four weeks
Histories ==
    {Weeks(<<>>), Weeks(<<400>>), Weeks(<<400, 400>>), Weeks(<<20, 40>>),
     Weeks(<<40, 20>>), Weeks(<<40, 40>>), Weeks(<<400, 0>>), Weeks(<<400, -1>>),
     Weeks(<<0, 0>>), Weeks(<<-1, -1>>), Weeks(<<40, 40, 40>>),
     Weeks(<<40, 40, 40, 40, 400>>), Weeks(<<400, 40, 40, 40, 40>>),
     Weeks(<<0, 20, 20, 20, 400>>)}

BudgetDatas ==
    {Snapshot(c @@ t @@ s @@ r @@ tr @@ u @@ m) :
        c \in Optional("avg_ctr", {15, 20, 150, 199, 200}),
        t \in Optional("daily_budget_target", {0, 5000, 10000, 10001}),
        s \in Optional("actual_daily_spend_avg", {10000, 10001, 20003}),
        r \in Optional("roas_percent", {149, 199, 200}),
        tr \in Optional("target_roas_percent", {150}),
        u \in Optional("budget_utilization_percent", {79, 80}),
        m \in {[market_ceiling_detected |-> b] : b \in BOOLEAN}}

InitEmergency ==
    /\ AnalyzerUnused("emergency")
    /\ BudgetUnused
    /\ AuditUnused
    /\ budget_data \in BudgetDatas
    /\ history \in Histories
    /\ alerts = NoCall
    /\ ReviewUnused

\* check_emergency_conditions(budget_data, assets, history)
CheckEmergencyConditions ==
    /\ pc = "emergency"
    /\ alerts' = [op |-> "check_emergency_conditions",
                  items |-> check_emergency_conditions(budget_data, assets, history)]
    /\ UNCHANGED <<budget_data, history>>
    /\ UNCHANGED <<analyzer_vars, budget_vars, audit_vars>>
    /\ UNCHANGED review_vars

NextEmergency == CheckEmergencyConditions

SpecEmergency == InitEmergency /\ [][NextEmergency]_vars

(***************************************************************************)
(* src/campaign_auditor.py: _calculate_score and _check_asset_health       *)
(*                                                                         *)
(* What a query of the data layer gives is kept as [kind |-> "list",       *)
(* items |-> ...] or as the exception it raised.  Dates are day numbers.   *)
(***************************************************************************)
SEVERITY_DEDUCTIONS == [CRITICAL |-> 15, WARNING |-> 5, INFO |-> 0, PASS |-> 0]

GRADE_SCALE == <<<<90, "A">>, <<75, "B">>, <<60, "C">>, <<40, "D">>, <<0, "F">>>>

\* SEVERITY_DEDUCTIONS.get(finding["severity"], 0)
Deduction(finding) ==
    IF finding.severity \in DOMAIN SEVERITY_DEDUCTIONS
    THEN SEVERITY_DEDUCTIONS[finding.severity]
    ELSE 0

\* the loop of _calculate_score: score -= deduction, finding by finding
RECURSIVE Deduct(_, _)
Deduct(score, fs) ==
    IF fs = <<>> THEN score ELSE Deduct(score - Deduction(Head(fs)), Tail(fs))

\* the first letter of GRADE_SCALE whose threshold the score reaches
Grade(score) ==
    LET hit == FirstIn({i \in 1..Len(GRADE_SCALE) : score >= GRADE_SCALE[i][1]})
    IN  IF hit = 0 THEN "F" ELSE GRADE_SCALE[hit][2]

\* the score without max(0, score)
calculate_score_no_clamp(fs) ==
    [score |-> Deduct(100, fs), grade |-> Grade(Deduct(100, fs))]

\* CampaignAuditor._calculate_score
calculate_score(fs) ==
    LET score == IF Deduct(100, fs) < 0 THEN 0 ELSE Deduct(100, fs)
    IN  [score |-> score, grade |-> Grade(score)]

\* a finding dict; the message is not kept
Finding(check, severity, value) ==
    [check |-> check, category |-> "asset_health", severity |-> severity,
     value |-> value]

\* the status test that counts every asset
IsActive_any_status(a) == TRUE

\* a.get("status") == "active"
IsActive(a) == Get(a, "status", "None") = "active"

\* the assets of the list that have the type
OfType(list, asset_type) ==
    SelectSeq(list, LAMBDA a : Get(a, "asset_type", "None") = asset_type)

\* Check 15: text asset minimums
TextAssetMinimums(active_assets) ==
    LET headlines == Len(OfType(active_assets, "HEADLINE"))
        long_headlines == Len(OfType(active_assets, "LONG_HEADLINE"))
        descriptions == Len(OfType(active_assets, "DESCRIPTION"))
        missing == headlines < 3 \/ descriptions < 2 \/ long_headlines < 1
    IN  Finding("text_asset_minimums", IF missing THEN "CRITICAL" ELSE "PASS",
                [headlines |-> headlines, descriptions |-> descriptions,
                 long_headlines |-> long_headlines])

\* a mapping of an image that links it to the campaign now
Linked(campaign_name, mapping) ==
    /\ Get(mapping, "campaign_name", "None") = campaign_name
    /\ "date_unlinked" \notin DOMAIN mapping

\* the field types of the mappings that link the images to the campaign
FormatsPresent(campaign_name, images) ==
    UNION {LET mappings == Get(images[i], "google_ads_assets", <<>>)
           IN  {Get(mappings[k], "field_type", "") :
                   k \in {j \in 1..Len(mappings) : Linked(campaign_name, mappings[j])}}
           : i \in 1..Len(images)} \ {""}

\* Check 16: image format coverage
ImageFormatCoverage(campaign_name, images) ==
    LET formats_present == FormatsPresent(campaign_name, images)
        missing_formats == ImageTypes \ formats_present
    IN  Finding("image_format_coverage",
                IF missing_formats # {} THEN "CRITICAL" ELSE "PASS",
                [formats |-> formats_present])

\* asset.get("date_added") or asset.get("created_at", ""), and whether it is set
AddedOn(asset) ==
    IF "date_added" \in DOMAIN asset
    THEN [set |-> TRUE, day |-> asset.date_added]
    ELSE IF "created_at" \in DOMAIN asset
    THEN [set |-> TRUE, day |-> asset.created_at]
    ELSE [set |-> FALSE, day |-> 0]

\* the loop of check 17: the greatest age above 0 among the dated assets
RECURSIVE OldestDays(_, _, _)
OldestDays(active_assets, now, oldest_days) ==
    IF active_assets = <<>>
    THEN oldest_days
    ELSE LET added == AddedOn(Head(active_assets))
             age_days == now - added.day
         IN  OldestDays(Tail(active_assets), now,
                        IF added.set /\ age_days > oldest_days
                        THEN age_days ELSE oldest_days)

\* Check 17: asset freshness
AssetFreshness(active_assets, now) ==
    LET oldest_days == OldestDays(active_assets, now, 0)
    IN  Finding("asset_freshness", IF oldest_days > 180 THEN "WARNING" ELSE "PASS",
                [days |-> oldest_days])

\* Check 18: kill rate; a record without date_killed is before every cutoff
KillRate(active_assets, graves, now) ==
    LET cutoff == now - 60
        recent_kills == SelectSeq(graves, LAMBDA a : /\ "date_killed" \in DOMAIN a
                                                     /\ a.date_killed >= cutoff)
        total_pool == Len(active_assets) + Len(recent_kills)
    IN  Finding("kill_rate",
                IF total_pool > 0 /\ 100 * Len(recent_kills) > 40 * total_pool
                THEN "WARNING" ELSE "PASS",
                [kills |-> Len(recent_kills), pool |-> total_pool])

\* what the query gave, [] when it raised
OrEmpty(loaded) == IF IsRaise(loaded) THEN <<>> ELSE loaded.items

\* CampaignAuditor._check_asset_health
check_asset_health(data, now) ==
    IF IsRaise(data.assets)
    THEN <<Finding("asset_data_unavailable", "WARNING", EmptyDict)>>
    ELSE LET active_assets == SelectSeq(data.assets.items, IsActive)
         IN  <<TextAssetMinimums(active_assets),
               ImageFormatCoverage(data.campaign_name, OrEmpty(data.images)),
               AssetFreshness(active_assets, now),
               KillRate(active_assets, OrEmpty(data.graveyard), now)>>

(***************************************************************************)
(* Inputs of the auditor                                                   *)
(***************************************************************************)
\* the longest list of findings handed to _calculate_score
MaxFindings == 7

Severities == {"CRITICAL", "WARNING", "INFO", "PASS"}

FindingLists ==
    ListsUpTo({Finding("check", s, EmptyDict) : s \in Severities}, MaxFindings)

Loaded(items) == [kind |-> "list", items |-> items]

Repeat(x, n) == [i \in 1..n |-> x]

StoredAsset(asset_type, status, date_added) ==
    [asset_type |-> asset_type, status |-> status, date_added |-> date_added]

\* assets next to the text assets: none; paused and killed text assets; one
\* without a status and an active image; an active image 181 and 180 days old
OtherAssets ==
    {<<>>,
     Repeat(StoredAsset("HEADLINE", "paused", 0), 3)
        \o <<StoredAsset("DESCRIPTION", "killed", 0),
             StoredAsset("LONG_HEADLINE", "paused", 0)>>,
     <<Drop(StoredAsset("HEADLINE", "active", 0), "status"),
       Drop(StoredAsset("MARKETING_IMAGE", "active", 0), "date_added")>>,
     <<StoredAsset("MARKETING_IMAGE", "active", -121)>>,
     <<StoredAsset("MARKETING_IMAGE", "active", -120)>>}

\* active text assets around the minimums of 3, 2 and 1, with the others
StoredAssetLists ==
    {Repeat(StoredAsset("HEADLINE", "active", 0), h)
        \o Repeat(StoredAsset("DESCRIPTION", "active", 0), d)
        \o Repeat(StoredAsset("LONG_HEADLINE", "active", 0), l)
        \o other :
        h \in {0, 2, 3}, d \in {1, 2}, l \in {0, 1}, other \in OtherAssets}

Mapping(campaign_name, field_type) ==
    [campaign_name |-> campaign_name, field_type |-> field_type]

Image(mappings) == [google_ads_assets |-> mappings]

\* no image; the three formats; the portrait unlinked; the square linked to
\* another campaign; an image without mappings
StoredImageLists ==
    {<<>>,
     <<Image(<<Mapping("rising", "MARKETING_IMAGE"),
               Mapping("rising", "SQUARE_MARKETING_IMAGE")>>),
       Image(<<Mapping("rising", "PORTRAIT_MARKETING_IMAGE")>>)>>,
     <<Image(<<Mapping("rising", "MARKETING_IMAGE"),
               Mapping("rising", "SQUARE_MARKETING_IMAGE")>>),
       Image(<<Put(Mapping("rising", "PORTRAIT_MARKETING_IMAGE"),
                   "date_unlinked", 30)>>)>>,
     <<Image(<<Mapping("rising", "MARKETING_IMAGE"),
               Mapping("other", "SQUARE_MARKETING_IMAGE"),
               Mapping("rising", "PORTRAIT_MARKETING_IMAGE")>>),
       EmptyDict>>}

Killed(date_killed) == [asset_type |-> "HEADLINE", date_killed |-> date_killed]

\* no kill; two kills within 60 days; one within, one before and one undated
StoredGraveyards ==
    {<<>>,
     <<Killed(0), Killed(30)>>,
     <<Killed(0), Killed(-1), Drop(Killed(0), "date_killed")>>}

QueryFailed == Raised("Exception", "query")

Campaigns ==
    {[campaign_name |-> "rising", assets |-> a, images |-> i, graveyard |-> g] :
        a \in {QueryFailed} \cup {Loaded(x) : x \in StoredAssetLists},
        i \in {QueryFailed} \cup {Loaded(x) : x \in StoredImageLists},
        g \in {QueryFailed} \cup {Loaded(x) : x \in StoredGraveyards}}

InitScore ==
    /\ AnalyzerUnused("checked")
    /\ BudgetUnused
    /\ EmergencyUnused
    /\ campaign = NoCall
    /\ findings \in FindingLists
    /\ audit_ret = NoCall
    /\ ReviewUnused

InitAssetHealth ==
    /\ AnalyzerUnused("audit")
    /\ BudgetUnused
    /\ EmergencyUnused
    /\ campaign \in Campaigns
    /\ findings = <<>>
    /\ audit_ret = NoCall
    /\ ReviewUnused

\* auditor._check_asset_health(campaign_name)
CheckAssetHealth ==
    /\ pc = "audit"
    /\ findings' = check_asset_health(campaign, today)
    /\ pc' = "checked"
    /\ UNCHANGED <<month_arg, month, season, today, assets, graveyard, ret>>
    /\ UNCHANGED <<campaign, audit_ret>>
    /\ UNCHANGED <<budget_vars, emergency_vars>>
    /\ UNCHANGED review_vars

\* auditor._calculate_score(findings)
CalculateScore ==
    /\ pc = "checked"
    /\ audit_ret = NoCall
    /\ audit_ret' = [op |-> "_calculate_score"] @@ calculate_score(findings)
    /\ UNCHANGED <<campaign, findings>>
    /\ UNCHANGED <<analyzer_vars, budget_vars, emergency_vars>>
    /\ UNCHANGED review_vars

NextScore == CalculateScore

SpecScore == InitScore /\ [][NextScore]_vars

NextAssetHealth == CheckAssetHealth \/ CalculateScore

SpecAssetHealth == InitAssetHealth /\ [][NextAssetHealth]_vars

(***************************************************************************)
(* src/campaign_auditor.py: _check_performance_trends                      *)
(*                                                                         *)
(* A week of budget history is a dict with optional roas_percent,          *)
(* target_roas_percent, budget_utilization_percent (whole percent) and     *)
(* total_spend (cents); the history is newest first, as get_budget_history *)
(* returns it.  The spend swing is kept in whole percent: the spends       *)
(* enumerated below make every swing a whole number.                       *)
(***************************************************************************)

\* SEASONAL_BUDGETS[season]: "recommended_daily" in cents and "target_roas"
\* in whole percent
SEASONAL_BUDGETS ==
    [s \in {"deep_winter", "low_season", "shoulder_season", "peak_season"} |->
        [recommended_daily |-> CASE s = "deep_winter" -> 1000
                                 [] s = "low_season" -> 3000
                                 [] s = "shoulder_season" -> 10000
                                 [] s = "peak_season" -> 15000,
         target_roas |-> IF s = "deep_winter" THEN 150 ELSE 200]]

get_seasonal_budget(m) == SEASONAL_BUDGETS[get_season_name(m).name]

TrendFinding(check, severity, value) ==
    [check |-> check, category |-> "performance_trends", severity |-> severity,
     value |-> value]

FirstN(s, n) == SubSeq(s, 1, IF Len(s) < n THEN Len(s) ELSE n)

Larger(a, b) == IF a >= b THEN a ELSE b

\* check 11: ROAS of the newest week against the higher of its own target and
\* the seasonal target
RoasVsTarget(latest, seasonal_target) ==
    LET roas == Get(latest, "roas_percent", 0)
        target_roas == Get(latest, "target_roas_percent", 0)
        effective_target ==
            IF target_roas > 0 THEN Larger(target_roas, seasonal_target)
            ELSE seasonal_target
        gap == (effective_target - roas) * 100
    IN  IF effective_target > 0 /\ roas > 0
        THEN IF gap > 30 * effective_target
             THEN TrendFinding("roas_vs_target", "CRITICAL", roas)
             ELSE IF gap > 10 * effective_target
                  THEN TrendFinding("roas_vs_target", "WARNING", roas)
                  ELSE TrendFinding("roas_vs_target", "PASS", roas)
        ELSE TrendFinding("roas_vs_target", "INFO", roas)

\* the loop of check 12: steps that decline, counted from the newest week up to
\* the first step that does not
RECURSIVE DecliningCount(_, _)
DecliningCount(roas, i) ==
    IF i > Len(roas) - 1 THEN 0
    ELSE IF roas[i] < roas[i + 1] THEN 1 + DecliningCount(roas, i + 1)
         ELSE 0

\* a trend check that is content with two declining steps
RoasTrend_two_steps(hist) ==
    IF Len(hist) >= 4
    THEN LET last_4_roas ==
                 [i \in 1..4 |-> Get(hist[i], "roas_percent", 0)]
         IN  IF DecliningCount(last_4_roas, 1) >= 2
             THEN TrendFinding("roas_trend", "WARNING", last_4_roas)
             ELSE TrendFinding("roas_trend", "PASS", last_4_roas)
    ELSE TrendFinding("roas_trend", "INFO", Len(hist))

\* check 12: ROAS declining three consecutive weeks
RoasTrend(hist) ==
    IF Len(hist) >= 4
    THEN LET last_4_roas ==
                 [i \in 1..4 |-> Get(hist[i], "roas_percent", 0)]
         IN  IF DecliningCount(last_4_roas, 1) >= 3
             THEN TrendFinding("roas_trend", "WARNING", last_4_roas)
             ELSE TrendFinding("roas_trend", "PASS", last_4_roas)
    ELSE TrendFinding("roas_trend", "INFO", Len(hist))

\* the loop of check 13: weeks under 50% utilization, counted from the newest
\* week up to the first week that is not
RECURSIVE LowUtilWeeks(_, _)
LowUtilWeeks(weeks, i) ==
    IF i > Len(weeks) THEN 0
    ELSE IF Get(weeks[i], "budget_utilization_percent", 0) < 50
         THEN 1 + LowUtilWeeks(weeks, i + 1)
         ELSE 0

\* a utilization check that warns on one low week
BudgetUtilization_one_week(hist) ==
    LET latest_util == Get(hist[1], "budget_utilization_percent", 0)
    IN  IF LowUtilWeeks(FirstN(hist, 4), 1) >= 1
        THEN TrendFinding("budget_utilization", "WARNING", latest_util)
        ELSE TrendFinding("budget_utilization", "PASS", latest_util)

\* check 13: budget utilization, for a history that is not empty
BudgetUtilization(hist) ==
    LET latest_util == Get(hist[1], "budget_utilization_percent", 0)
    IN  IF LowUtilWeeks(FirstN(hist, 4), 1) >= 2
        THEN TrendFinding("budget_utilization", "WARNING", latest_util)
        ELSE TrendFinding("budget_utilization", "PASS", latest_util)

Abs(x) == IF x < 0 THEN 0 - x ELSE x

\* the loop of check 14: the largest week-to-week swing, in whole percent
RECURSIVE MaxSwing(_, _)
MaxSwing(spends, i) ==
    IF i > Len(spends) - 1 THEN 0
    ELSE IF spends[i + 1] > 0
         THEN Larger((Abs(spends[i] - spends[i + 1]) * 100) \div spends[i + 1],
                     MaxSwing(spends, i + 1))
         ELSE MaxSwing(spends, i + 1)

\* check 14: spend volatility
SpendVolatility(hist) ==
    IF Len(hist) >= 2
    THEN LET first == FirstN(hist, 4)
             spends == [i \in 1..Len(first) |-> Get(first[i], "total_spend", 0)]
             max_swing == MaxSwing(spends, 1)
         IN  IF max_swing > 40
             THEN TrendFinding("spend_volatility", "INFO", max_swing)
             ELSE TrendFinding("spend_volatility", "PASS", max_swing)
    ELSE TrendFinding("spend_volatility", "INFO", None)

\* _check_performance_trends for the stored data of a campaign, with the
\* auditor's seasonal budget
check_performance_trends(data, seasonal_budget) ==
    IF IsRaise(data.history)
    THEN <<TrendFinding("budget_history_unavailable", "WARNING", None)>>
    ELSE LET hist == data.history.items
         IN  IF hist = <<>>
             THEN <<TrendFinding("budget_history_empty", "INFO", 0)>>
             ELSE <<RoasVsTarget(hist[1], seasonal_budget.target_roas),
                    RoasTrend(hist),
                    BudgetUtilization(hist),
                    SpendVolatility(hist)>>

(***************************************************************************)
(* Auditing the performance trends of a campaign                           *)
(***************************************************************************)

\* the longest stored history
MaxWeeks == 5

WeekRoasVals == {100, 140, 200}

\* the ROAS of the stored weeks, newest first; -1 is a week without roas_percent
RoasLists == ListsUpTo(WeekRoasVals \cup {-1}, MaxWeeks)

\* the utilization of the stored weeks, newest first; -1 is a week without
\* budget_utilization_percent, and the weeks after the third are at 50
UtilPatterns ==
    {<<50, 50, 50>>, <<49, 50, 49>>, <<50, 49, 49>>, <<49, 49, 50>>,
     <<49, -1, 50>>, <<-1, 49, 49>>, <<-1, -1, 50>>}

\* the spend of the stored weeks, newest first; -1 is a week without total_spend
SpendPatterns ==
    {<<10000, 10000, 10000>>, <<14000, 10000, 20000>>, <<14100, 10000, -1>>}

TrendWeek(roas, util, spend, target) ==
    [campaign_name |-> "rising"]
        @@ (IF roas < 0 THEN EmptyDict ELSE [roas_percent |-> roas])
        @@ (IF util < 0 THEN EmptyDict ELSE [budget_utilization_percent |-> util])
        @@ (IF spend < 0 THEN EmptyDict ELSE [total_spend |-> spend])
        @@ target

\* the i-th entry of a pattern, and the entry every later week has
At(pattern, i, later) == IF i <= Len(pattern) THEN pattern[i] ELSE later

TrendHistory(rs, us, ss, target) ==
    [i \in 1..Len(rs) |-> TrendWeek(rs[i], At(us, i, 50), At(ss, i, 10000), target)]

TrendCampaigns ==
    {[campaign_name |-> "rising", history |-> QueryFailed]} \cup
    {[campaign_name |-> "rising",
      history |-> Loaded(TrendHistory(rs, us, ss, t))] :
        rs \in RoasLists, us \in UtilPatterns, ss \in SpendPatterns,
        t \in Optional("target_roas_percent", {250})}

\* the months the auditor is constructed in: deep winter and peak season
TrendMonths == {1, 6}

InitTrends ==
    /\ pc = "audit"
    /\ month_arg = 0
    /\ month \in TrendMonths
    /\ season = get_season_name(month).name
    /\ today \in TodayVals
    /\ assets = <<>>
    /\ graveyard = <<>>
    /\ ret = NoCall
    /\ BudgetUnused
    /\ EmergencyUnused
    /\ campaign \in TrendCampaigns
    /\ findings = <<>>
    /\ audit_ret = NoCall
    /\ ReviewUnused

\* auditor._check_performance_trends(campaign_name)
CheckPerformanceTrends ==
    /\ pc = "audit"
    /\ findings' = check_performance_trends(campaign, get_seasonal_budget(month))
    /\ pc' = "checked"
    /\ UNCHANGED <<month_arg, month, season, today, assets, graveyard, ret>>
    /\ UNCHANGED <<campaign, audit_ret>>
    /\ UNCHANGED <<budget_vars, emergency_vars>>
    /\ UNCHANGED review_vars

NextTrends == CheckPerformanceTrends

SpecTrends == InitTrends /\ [][NextTrends]_vars

(***************************************************************************)
(* src/campaign_auditor.py: audit_all, audit_campaign, _generate_summary,  *)
(* _fallback_summary                                                       *)
(*                                                                         *)
(* The findings the five check categories return for a campaign are an     *)
(* input.  campaign_results, a dict in insertion order, is the sequence of *)
(* its values.  A formatted string is the sequence of its pieces.  The     *)
(* reply text of the summary service is a sequence of tokens: a line       *)
(* break, a code fence, a word, or a serialized JSON value.                *)
(***************************************************************************)

\* audit_campaign, from the score on: the result dict for the findings
audit_campaign(campaign_name, fs) ==
    [campaign_name |-> campaign_name,
     health_score |-> calculate_score(fs).score,
     grade |-> calculate_score(fs).grade,
     findings |-> fs]

RECURSIVE Concat(_)
Concat(lists) ==
    IF lists = <<>> THEN <<>> ELSE Head(lists) \o Concat(Tail(lists))

\* sep.join(parts), as pieces
RECURSIVE Join(_, _)
Join(parts, sep) ==
    IF parts = <<>> THEN <<>>
    ELSE IF Len(parts) = 1 THEN parts[1]
         ELSE parts[1] \o <<sep>> \o Join(Tail(parts), sep)

WithSeverity(fs, severity) ==
    LET Is(f) == f.severity = severity IN SelectSeq(fs, Is)

\* _fallback_summary
fallback_summary(all_findings, campaign_results) ==
    LET critical == WithSeverity(all_findings, "CRITICAL")
        warnings == WithSeverity(all_findings, "WARNING")
        parts == [i \in 1..Len(campaign_results) |->
                    <<campaign_results[i].campaign_name, ": ",
                      campaign_results[i].health_score, "/100 (",
                      campaign_results[i].grade, ")">>]
    IN  [summary |->
            <<"Audit complete. ">> \o Join(parts, ", ") \o <<".">>
            \o (IF critical # <<>>
                THEN <<" ", Len(critical),
                       " critical issue(s) need immediate attention.">>
                ELSE <<>>)
            \o (IF warnings # <<>>
                THEN <<" ", Len(warnings), " warning(s) to review.">>
                ELSE <<>>),
         recommendations |->
            [i \in 1..Len(critical) |-> <<"[CRITICAL] ", critical[i].message>>]
            \o [i \in 1..Len(FirstN(warnings, 5)) |->
                    <<"[WARNING] ", warnings[i].message>>]]

\* a piece of text that is not JSON: a line break, a word, or "fence" for the
\* three backquotes of a code fence
Tok(s) == [tok |-> s]

\* a serialized JSON value inside a text
Json(value) == [tok |-> "json", json |-> value]

JsonDict(d) == [kind |-> "dict", value |-> d]

JsonList(l) == [kind |-> "list", value |-> l]

IsJson(token) == token.tok = "json"

Whitespace == {"\n", " "}

\* text.strip()
RECURSIVE Strip(_)
Strip(text) ==
    IF text = <<>> THEN text
    ELSE IF Head(text).tok \in Whitespace THEN Strip(Tail(text))
         ELSE IF text[Len(text)].tok \in Whitespace
              THEN Strip(SubSeq(text, 1, Len(text) - 1))
              ELSE text

Positions(text, token) == {i \in 1..Len(text) : text[i].tok = token}

Least(S) == CHOOSE i \in S : \A j \in S : i <= j

Greatest(S) == CHOOSE i \in S : \A j \in S : i >= j

\* text.split("\n", 1)[1].rsplit(fence, 1)[0].strip(), for a text that starts
\* with a fence; IndexError when the text has no line break
Unfence(text) ==
    IF Positions(text, "\n") = {}
    THEN Raised("IndexError", "list index out of range")
    ELSE LET body == SubSeq(text, Least(Positions(text, "\n")) + 1, Len(text))
             inner == IF Positions(body, "fence") = {} THEN body
                      ELSE SubSeq(body, 1, Greatest(Positions(body, "fence")) - 1)
         IN  [kind |-> "text", text |-> Strip(inner)]

\* json.loads: the value of a text that is one JSON value, line breaks around
\* it allowed
json_loads(text) ==
    IF Len(Strip(text)) = 1 /\ IsJson(Strip(text)[1])
    THEN Strip(text)[1].json
    ELSE Raised("JSONDecodeError", "Expecting value")

\* the try block of _generate_summary once the response is there and ok:
\* the returned dict, or the exception it raises
ReadReply(response) ==
    IF IsRaise(response.json) THEN response.json
    ELSE IF "content" \notin DOMAIN response.json.value
    THEN Raised("KeyError", "content")
    ELSE IF response.json.value.content = <<>>
    THEN Raised("IndexError", "list index out of range")
    ELSE IF "text" \notin DOMAIN response.json.value.content[1]
    THEN Raised("KeyError", "text")
    ELSE LET text == Strip(response.json.value.content[1].text)
             inner == IF text # <<>> /\ Head(text).tok = "fence"
                      THEN Unfence(text)
                      ELSE [kind |-> "text", text |-> text]
         IN  IF IsRaise(inner) THEN inner
             ELSE LET summary_data == json_loads(inner.text)
                  IN  IF IsRaise(summary_data) THEN summary_data
                      ELSE IF summary_data.kind # "dict"
                      THEN Raised("AttributeError", "get")
                      ELSE [kind |-> "dict",
                            summary |-> Get(summary_data.value, "summary", <<>>),
                            recommendations |->
                                Get(summary_data.value, "recommendations", <<>>)]

\* a _generate_summary that does not look at response.ok
generate_summary_any_status(key, service, all_findings, campaign_results) ==
    IF key.kind = "None" \/ (key.kind = "str" /\ key.value = "")
    THEN fallback_summary(all_findings, campaign_results)
    ELSE IF IsRaise(service)
    THEN fallback_summary(all_findings, campaign_results)
    ELSE IF IsRaise(ReadReply(service))
    THEN fallback_summary(all_findings, campaign_results)
    ELSE [summary |-> ReadReply(service).summary,
          recommendations |-> ReadReply(service).recommendations]

\* _generate_summary, with the API key the auditor holds and what
\* requests.post does: it raises, or returns a response
generate_summary(key, service, all_findings, campaign_results) ==
    IF key.kind = "None" \/ (key.kind = "str" /\ key.value = "")
    THEN fallback_summary(all_findings, campaign_results)
    ELSE IF IsRaise(service)
    THEN fallback_summary(all_findings, campaign_results)
    ELSE IF ~service.ok
    THEN fallback_summary(all_findings, campaign_results)
    ELSE IF IsRaise(ReadReply(service))
    THEN fallback_summary(all_findings, campaign_results)
    ELSE [summary |-> ReadReply(service).summary,
          recommendations |-> ReadReply(service).recommendations]

\* audit_all for the configured campaigns, in the order of the config
audit_all(config, checks, key, service, m) ==
    LET names == config.campaigns
        campaign_results ==
            [i \in 1..Len(names) |-> audit_campaign(names[i], checks[names[i]])]
        all_findings ==
            Concat([i \in 1..Len(names) |-> campaign_results[i].findings])
        summary_data == generate_summary(key, service, all_findings, campaign_results)
    IN  [campaigns |-> campaign_results,
         summary |-> summary_data.summary,
         recommendations |-> summary_data.recommendations,
         season |-> get_season_name(m).name,
         month |-> m]

(***************************************************************************)
(* Auditing all campaigns                                                  *)
(***************************************************************************)

\* a finding of a campaign; its message names the campaign and the finding
CheckFinding(campaign_name, i, severity) ==
    [check |-> "check", category |-> "category", severity |-> severity,
     message |-> <<campaign_name, i>>]

CheckFindings(campaign_name, severities) ==
    [i \in 1..Len(severities) |-> CheckFinding(campaign_name, i, severities[i])]

\* what the checks of one campaign return: nothing to report, a clean pass,
\* one critical finding, warnings around a critical finding, six warnings
SeverityLists ==
    {<<>>, <<"PASS", "INFO">>, <<"CRITICAL">>,
     <<"WARNING", "CRITICAL", "PASS", "WARNING">>,
     <<"WARNING", "WARNING", "INFO", "WARNING">>,
     <<"WARNING", "WARNING", "WARNING", "WARNING", "WARNING", "WARNING">>,
     <<"CRITICAL", "CRITICAL", "CRITICAL", "CRITICAL", "CRITICAL", "CRITICAL",
       "CRITICAL">>}

AuditConfigs ==
    {[campaigns |-> names] : names \in {<<>>, <<"rising">>, <<"nets", "rising">>}}

\* a str
Str(s) == [kind |-> "str", value |-> s]

ApiKeys == {None, Str(""), Str("sk-key")}

GoodReply ==
    JsonDict([summary |-> <<"Healthy.">>, recommendations |-> <<<<"Add images">>>>])

\* the texts of a reply: the JSON asked for, bare, between line breaks, in a
\* fence with and without its end; a fence alone, a fence without content,
\* prose, prose before the JSON, a JSON list, JSON dicts without the keys,
\* an empty text
ReplyTexts ==
    {<<Json(GoodReply)>>,
     <<Tok("\n"), Json(GoodReply), Tok("\n")>>,
     <<Tok("fence"), Tok("json"), Tok("\n"), Json(GoodReply), Tok("\n"), Tok("fence")>>,
     <<Tok("fence"), Tok("json"), Tok("\n"), Json(GoodReply)>>,
     <<Tok("fence")>>,
     <<Tok("fence"), Tok("json"), Tok("\n"), Tok("fence")>>,
     <<Tok("fence"), Tok("\n"), Tok("Here it is:"), Tok("\n"), Json(GoodReply), Tok("\n"), Tok("fence")>>,
     <<Tok("I cannot help")>>,
     <<Tok("Here it is:"), Tok("\n"), Json(GoodReply)>>,
     <<Json(JsonList(<<>>))>>,
     <<Json(JsonDict(EmptyDict))>>,
     <<Json(JsonDict([summary |-> <<"Healthy.">>]))>>,
     <<>>}

\* what response.json() gives: it raises, or a body without content, with
\* no content block, with a block without text, or with a text
ReplyBodies ==
    {Raised("JSONDecodeError", "Expecting value"),
     JsonDict(EmptyDict), JsonDict([content |-> <<>>]),
     JsonDict([content |-> <<EmptyDict>>])}
    \cup {JsonDict([content |-> <<[text |-> t]>>]) : t \in ReplyTexts}

\* what requests.post does
Services ==
    {Raised("ConnectionError", "post")}
    \cup {[kind |-> "response", ok |-> o, json |-> b] :
            o \in BOOLEAN, b \in ReplyBodies}

AuditMonths == {6}

InitAuditAll ==
    /\ pc = "audit_all"
    /\ month_arg = 0
    /\ month \in AuditMonths
    /\ season = get_season_name(month).name
    /\ today \in TodayVals
    /\ assets = <<>>
    /\ graveyard = <<>>
    /\ ret = NoCall
    /\ BudgetUnused
    /\ EmergencyUnused
    /\ \E config \in AuditConfigs, key \in ApiKeys, service \in Services :
       \E rising \in SeverityLists, nets \in SeverityLists :
            campaign = [config |-> config,
                        anthropic_key |-> key,
                        service |-> service,
                        checks |-> [n \in {"rising", "nets"} |->
                                      CheckFindings(n, IF n = "rising" THEN rising
                                                       ELSE nets)]]
    /\ findings = <<>>
    /\ audit_ret = NoCall
    /\ ReviewUnused

\* auditor.audit_all()
AuditAll ==
    /\ pc = "audit_all"
    /\ audit_ret' = [op |-> "audit_all"]
            @@ audit_all(campaign.config, campaign.checks, campaign.anthropic_key,
                         campaign.service, month)
    /\ findings' = Concat([i \in 1..Len(campaign.config.campaigns) |->
                              campaign.checks[campaign.config.campaigns[i]]])
    /\ pc' = "audited"
    /\ UNCHANGED <<month_arg, month, season, today, assets, graveyard, ret>>
    /\ UNCHANGED campaign
    /\ UNCHANGED <<budget_vars, emergency_vars>>
    /\ UNCHANGED review_vars

NextAuditAll == AuditAll

SpecAuditAll == InitAuditAll /\ [][NextAuditAll]_vars

(***************************************************************************)
(* The analyzer on partially populated records                             *)
(***************************************************************************)

NumericFields == {"impressions", "ctr", "conversions", "cost", "cpa"}

\* d without the keys
DropAll(d, keys) == [k \in (DOMAIN d) \ keys |-> d[k]]

\* the fields a record arrives without: none, the impressions, the CTR, both,
\* every numeric field, the conversion fields
MissingFields ==
    {{}, {"impressions"}, {"ctr"}, {"impressions", "ctr"}, NumericFields,
     {"conversions", "cost", "cpa"}}

\* text and image records, old and one day old, with 600 impressions and a CTR
\* of 0.50% where they carry them
PartialAssets ==
    {DropAll(TextAsset(t, TextNiceFishingStuff, 600, 50, "active", d), missing) :
        t \in {"HEADLINE", "MARKETING_IMAGE"}, d \in {0, 59},
        missing \in MissingFields}

PartialMonths == {2, 6}

InitPartial == InitAnalyzer(PartialMonths, ListsUpTo(PartialAssets, MaxAssets), {<<>>})

NextPartial == Construct \/ ShouldKill \/ FlagUnderperformers

SpecPartial == InitPartial /\ [][NextPartial]_vars

(***************************************************************************)
(* database/queries.py over database/schema.py: the persistent tables      *)
(*                                                                         *)
(* A table is a function from its primary key, <<hash key, range key>>, to *)
(* the item stored under it.  put_item replaces the item of its key.       *)
(***************************************************************************)

EmptyTable == [k \in {} |-> 0]

\* table.put_item(Item=item), for the key the schema takes from the item
PutItem(table, key, item) ==
    [k \in (DOMAIN table) \cup {key} |-> IF k = key THEN item ELSE table[k]]

\* the items of a hash key in the order of the range key
RECURSIVE ItemsAscending(_, _)
ItemsAscending(table, keys) ==
    IF keys = {} THEN <<>>
    ELSE LET first == CHOOSE k \in keys : \A j \in keys : k[2] <= j[2]
         IN  <<table[first]>> \o ItemsAscending(table, keys \ {first})

Reverse(s) == [i \in 1..Len(s) |-> s[Len(s) + 1 - i]]

KeysOf(table, hash_key) == {k \in DOMAIN table : k[1] = hash_key}

\* generate_asset_id: the digest of "key|campaign", kept as the pair it
\* hashes; the key is the asset resource of an image, the text otherwise
generate_asset_id(asset_text, campaign_name, asset_resource) ==
    [key |-> IF asset_resource # <<>> THEN asset_resource ELSE asset_text,
     campaign_name |-> campaign_name]

\* save_asset_performance: the item put under (asset_id, report_date); the
\* keys whose value is None (date_killed, kill_reason, ...) are left out
save_asset_performance(table, asset, now) ==
    PutItem(table, <<asset.asset_id, asset.report_date>>,
            [asset_id |-> asset.asset_id,
             report_date |-> asset.report_date,
             asset_text |-> asset.asset_text,
             asset_type |-> asset.asset_type,
             campaign_name |-> asset.campaign_name,
             impressions |-> Get(asset, "impressions", 0),
             clicks |-> Get(asset, "clicks", 0),
             ctr |-> Get(asset, "ctr", 0),
             conversions |-> Get(asset, "conversions", 0),
             cost |-> Get(asset, "cost", 0),
             cpa |-> Get(asset, "cpa", 0),
             status |-> Get(asset, "status", "active"),
             date_added |-> asset.date_added,
             updated_at |-> now,
             created_at |-> now])

\* save_to_graveyard: the item put under (campaign_name, date_killed)
save_to_graveyard(table, asset, now) ==
    PutItem(table, <<asset.campaign_name, Get(asset, "date_killed", now)>>,
            [campaign_name |-> asset.campaign_name,
             date_killed |-> Get(asset, "date_killed", now),
             asset_id |-> asset.asset_id,
             asset_text |-> asset.asset_text,
             asset_type |-> asset.asset_type,
             impressions |-> Get(asset, "impressions", 0),
             clicks |-> Get(asset, "clicks", 0),
             ctr |-> Get(asset, "ctr", 0),
             conversions |-> Get(asset, "conversions", 0),
             cost |-> Get(asset, "cost", 0),
             kill_reason |-> Get(asset, "kill_reason", "unknown"),
             created_at |-> now])

\* get_graveyard_assets: every item of the campaign
get_graveyard_assets(table, campaign_name) ==
    ItemsAscending(table, KeysOf(table, campaign_name))

\* save_budget_performance: the item put under (campaign_name, week_ending);
\* the keys of the snapshot it does not list are not stored
save_budget_performance(table, data, now) ==
    PutItem(table, <<data.campaign_name, data.week_ending>>,
            [campaign_name |-> data.campaign_name,
             week_ending |-> data.week_ending,
             season |-> data.season,
             daily_budget_target |-> Get(data, "daily_budget_target", 0),
             actual_daily_spend_avg |-> Get(data, "actual_daily_spend_avg", 0),
             total_spend |-> Get(data, "total_spend", 0),
             total_revenue |-> Get(data, "total_revenue", 0),
             conversions |-> Get(data, "conversions", 0),
             roas_percent |-> Get(data, "roas_percent", 0),
             target_roas_percent |-> Get(data, "target_roas_percent", 0),
             budget_utilization_percent |->
                 Get(data, "budget_utilization_percent", 0),
             recommendation |-> data.recommendation,
             recommended_daily_budget |-> Get(data, "recommended_daily_budget", 0),
             recommendation_reason |-> data.recommendation_reason,
             market_ceiling_detected |-> Get(data, "market_ceiling_detected", FALSE),
             created_at |-> now])

\* get_budget_history: the newest items of the campaign, at most `weeks`
get_budget_history(table, campaign_name, weeks) ==
    FirstN(Reverse(ItemsAscending(table, KeysOf(table, campaign_name))), weeks)

(***************************************************************************)
(* src/data_collector.py: collect_for_campaign, collect_images_for_campaign *)
(*                                                                         *)
(* A row is the performance of one asset on one date.                      *)
(***************************************************************************)

\* get_asset_performance: the rows of the date range
RowsBetween(rows, start_date, end_date) ==
    LET Within(r) == r.date >= start_date /\ r.date <= end_date
    IN  SelectSeq(rows, Within)

\* round(x, 2) of a percentage num/den * 100, in hundredths of a percent
RoundPercent(num, den) == (2 * num * 10000 + den) \div (2 * den)

Earliest(dates) == CHOOSE d \in dates : \A e \in dates : d <= e

\* the dict a row opens: of a text asset, or of an image
NewAggregate(row, campaign_name, images) ==
    LET counters == [campaign_name |-> campaign_name,
                     asset_type |-> row.field_type,
                     impressions |-> 0, clicks |-> 0, conversions |-> 0,
                     conversions_value |-> 0, cost |-> 0,
                     status |-> "active", dates_seen |-> {}]
    IN  IF images
        THEN counters @@
             [asset_id |-> generate_asset_id(Get(row, "asset_name", <<>>),
                                             campaign_name, row.asset_resource),
              asset_text |-> Get(row, "asset_name", <<>>),
              asset_name |-> Get(row, "asset_name", <<>>),
              asset_resource |-> row.asset_resource]
        ELSE counters @@
             [asset_id |-> generate_asset_id(row.asset_text, campaign_name, <<>>),
              asset_text |-> row.asset_text]

\* the aggregation loop: one dict per asset text (per asset resource, for the
\* images), in order of first appearance
RECURSIVE Aggregate(_, _, _, _)
Aggregate(rows, campaign_name, aggregated, images) ==
    IF rows = <<>> THEN aggregated
    ELSE LET row == Head(rows)
             Same(agg) == IF images THEN agg.asset_resource = row.asset_resource
                          ELSE agg.asset_text = row.asset_text
             at == {i \in 1..Len(aggregated) : Same(aggregated[i])}
             Add(agg) == [agg EXCEPT !.impressions = @ + row.impressions,
                                     !.clicks = @ + row.clicks,
                                     !.conversions = @ + row.conversions,
                                     !.conversions_value = @ + row.conversions_value,
                                     !.cost = @ + row.cost,
                                     !.dates_seen = @ \cup {row.date}]
         IN  IF at = {}
             THEN Aggregate(Tail(rows), campaign_name,
                            Append(aggregated,
                                   Add(NewAggregate(row, campaign_name, images))),
                            images)
             ELSE Aggregate(Tail(rows), campaign_name,
                            [i \in 1..Len(aggregated) |->
                                IF i \in at THEN Add(aggregated[i])
                                ELSE aggregated[i]],
                            images)

\* the derived metrics: ctr, cpa and date_added, the earliest date seen
Derived(agg) ==
    [k \in (DOMAIN agg) \ {"dates_seen"} |-> agg[k]]
    @@ [ctr |-> IF agg.impressions > 0
                THEN RoundPercent(agg.clicks, agg.impressions) ELSE 0,
        cpa |-> IF agg.conversions > 0 THEN agg.cost \div agg.conversions ELSE 0,
        date_added |-> Earliest(agg.dates_seen)]

\* the derived metrics over every aggregate
DeriveAll(aggregated) == [i \in 1..Len(aggregated) |-> Derived(aggregated[i])]

collect_for_campaign(rows, campaign_name, start_date, end_date) ==
    DeriveAll(Aggregate(RowsBetween(rows, start_date, end_date),
                        campaign_name, <<>>, FALSE))

collect_images_for_campaign(rows, campaign_name, start_date, end_date) ==
    DeriveAll(Aggregate(RowsBetween(rows, start_date, end_date),
                        campaign_name, <<>>, TRUE))

(***************************************************************************)
(* lambda_functions/weekly_review.py: lambda_handler                       *)
(*                                                                         *)
(* One run of the handler over the campaigns of the configuration.  What   *)
(* Google Ads and Shopify answer is the input `ads`: the per-date asset    *)
(* rows, the campaign status, its metrics and its budget.  The copy        *)
(* generator is an input too: it returns a replacement for every flagged   *)
(* asset or raises.  Money is in cents, CTR in hundredths of a percent,    *)
(* ROAS and utilization in whole percent (the inputs enumerated below make *)
(* every quotient exact).  The Slack notification of step 10 changes no    *)
(* state of the program and is left out.                                   *)
(***************************************************************************)

\* AssetAnalyzer(month=month)
AssetAnalyzer(m) ==
    [month |-> m, season |-> get_season_name(m).name, thresholds |-> get_thresholds(m)]

\* Step 4: asset["report_date"] = today; save_asset_performance(asset)
Dated(list, now) == [i \in 1..Len(list) |-> Put(list[i], "report_date", now)]

RECURSIVE SaveAssets(_, _, _)
SaveAssets(table, list, now) ==
    IF list = <<>> THEN table
    ELSE SaveAssets(save_asset_performance(table, Head(list), now), Tail(list), now)

\* Step 9: asset["date_killed"] = today; save_to_graveyard(asset)
RECURSIVE BuryAssets(_, _, _)
BuryAssets(table, list, now) ==
    IF list = <<>> THEN table
    ELSE BuryAssets(save_to_graveyard(table, Put(Head(list), "date_killed", now), now),
                    Tail(list), now)

\* the flagged dicts, in order
FlaggedOf(r) == [i \in 1..Len(r.flagged) |-> r.assets[r.flagged[i]]]

NothingFlagged(list) == [assets |-> list, flagged |-> <<>>, raised |-> None]

\* Step 7: the snapshot of the campaign's budget performance
BudgetSnapshot(campaign_name, ads, m, now) ==
    LET lookback == get_thresholds(m).lookback_days
        seasonal_budget == get_seasonal_budget(m)
        total_spend == ads.metrics.total_spend
        actual_daily_avg == IF lookback > 0 THEN total_spend \div lookback ELSE 0
        daily_budget_target == IF ads.budget <= 0
                               THEN seasonal_budget.recommended_daily
                               ELSE ads.budget
        target_roas == seasonal_budget.target_roas
        utilization == IF daily_budget_target > 0
                       THEN (actual_daily_avg * 100) \div daily_budget_target
                       ELSE 0
        total_revenue == ads.revenue
        roas == IF total_spend > 0 THEN (total_revenue * 100) \div total_spend ELSE 0
        budget_rec == calculate_budget_recommendation(daily_budget_target,
                          actual_daily_avg, roas, target_roas,
                          get_season_name(m).name)
    IN  [campaign_name |-> campaign_name,
         week_ending |-> now,
         report_date |-> now,
         lookback_start |-> now - lookback,
         lookback_end |-> now,
         lookback_days |-> lookback,
         season |-> get_season_name(m).name,
         daily_budget_target |-> daily_budget_target,
         actual_daily_spend_avg |-> actual_daily_avg,
         total_spend |-> total_spend,
         campaign_ctr |-> ads.metrics.ctr,
         campaign_clicks |-> ads.metrics.clicks,
         campaign_impressions |-> ads.metrics.impressions,
         total_revenue |-> total_revenue,
         roas_percent |-> roas,
         roas_7d_percent |-> roas,
         roas_14d_percent |-> roas,
         roas_source |-> "shopify",
         target_roas_percent |-> target_roas,
         budget_utilization_percent |-> utilization,
         recommendation |-> budget_rec.action,
         recommended_daily_budget |-> budget_rec.recommended_budget,
         recommendation_reason |-> budget_rec.reason,
         market_ceiling_detected |-> budget_rec.market_ceiling_detected]

\* the body of the loop over CAMPAIGNS, for one campaign with a campaign_id
\* that is not paused: steps 3 to 9.  `run` is the state of the handler: the
\* tables, the all_* accumulators, the assets handed to save_to_graveyard and
\* the exception that ended it, if any.
ProcessCampaign(run, campaign_name, campaign_config, ads, preview_mode, generator, m, now) ==
    LET thresholds == get_thresholds(m)
        asset_changes_enabled == Get(thresholds, "asset_changes_enabled", TRUE)
        lookback_start == now - thresholds.lookback_days
        NotSitelink(a) == a.asset_type # "SITELINK"
        IsSitelink(a) == a.asset_type = "SITELINK"
        collected == collect_for_campaign(ads.asset_rows, campaign_name,
                                          lookback_start, now)
        image_assets == Dated(collect_images_for_campaign(ads.image_rows,
                                  campaign_name, lookback_start, now), now)
        sitelinks == SelectSeq(collected, IsSitelink)
        text_assets == Dated(SelectSeq(collected, NotSitelink), now)
        asset_performance == SaveAssets(SaveAssets(run.store.asset_performance,
                                                   text_assets, now),
                                        image_assets, now)
        analysing == asset_changes_enabled \/ preview_mode
        changing == asset_changes_enabled /\ ~preview_mode
        graves == get_graveyard_assets(run.store.graveyard, campaign_name)
        analyzer == AssetAnalyzer(m)
        text == IF analysing
                THEN flag_underperformers(analyzer, text_assets, graves, now)
                ELSE NothingFlagged(text_assets)
        images == IF analysing /\ ~IsRaise(text.raised)
                  THEN flag_underperformers(analyzer, image_assets, graves, now)
                  ELSE NothingFlagged(image_assets)
        flagged == FlaggedOf(text)
        flagged_images == FlaggedOf(images)
        generated == changing /\ flagged # <<>>
        replacements == IF generated /\ generator = "replaces"
                        THEN {flagged[i].asset_id : i \in 1..Len(flagged)}
                        ELSE {}
        claude_error == IF generated /\ generator = "raises"
                        THEN Str("Claude API failed") ELSE None
        snapshot == BudgetSnapshot(campaign_name, ads, m, now)
        budget_performance == save_budget_performance(run.store.budget_performance,
                                                      snapshot, now)
        hist == get_budget_history(budget_performance, campaign_name, 4)
        emergencies == check_emergency_conditions(snapshot, text.assets, hist)
        buried == IF changing
                  THEN BuryAssets(BuryAssets(run.store.graveyard, flagged, now),
                                  flagged_images, now)
                  ELSE run.store.graveyard
        csv_files == IF changing /\ flagged # <<>>
                     THEN <<[slug |-> campaign_config.slug,
                             asset_group |-> campaign_config.asset_group,
                             date |-> now,
                             paused |-> [i \in 1..Len(flagged) |-> flagged[i].asset_id],
                             added |-> replacements]>>
                     ELSE <<>>
        trace == [campaign_name |-> campaign_name,
                  asset_changes_enabled |-> asset_changes_enabled,
                  assets |-> text.assets,
                  image_assets |-> images.assets,
                  sitelinks |-> sitelinks,
                  analysed |-> analysing]
    IN  IF IsRaise(text.raised) \/ IsRaise(images.raised)
        THEN [run EXCEPT !.store.asset_performance = asset_performance,
                         !.all_flagged = @ \o flagged \o flagged_images,
                         !.campaigns = Append(@, trace),
                         !.raised = IF IsRaise(text.raised) THEN text.raised
                                    ELSE images.raised]
        ELSE [run EXCEPT !.store = [asset_performance |-> asset_performance,
                                    budget_performance |-> budget_performance,
                                    graveyard |-> buried],
                         !.all_flagged = @ \o flagged \o flagged_images,
                         !.all_replacements = @ \cup replacements,
                         !.all_csv_files = @ \o csv_files,
                         !.all_budget_data = Append(@, snapshot),
                         !.all_emergency_alerts = @ \o emergencies,
                         !.buried = @ \o (IF changing THEN flagged \o flagged_images
                                          ELSE <<>>),
                         !.claude_error = claude_error,
                         !.campaigns = Append(@, Put(Put(trace, "history", hist),
                                                     "budget_data", snapshot))]

\* for campaign_name, campaign_config in CAMPAIGNS.items(): ...
RECURSIVE Campaigns_loop(_, _, _, _, _, _, _)
Campaigns_loop(run, configs, ads, preview_mode, generator, m, now) ==
    IF configs = <<>> \/ IsRaise(run.raised) THEN run
    ELSE LET campaign_config == Head(configs)
             campaign_name == campaign_config.name
         IN  IF Get(campaign_config, "campaign_id", "") = ""
             THEN Campaigns_loop(run, Tail(configs), ads, preview_mode, generator, m, now)
             ELSE IF ads.campaign_status = "PAUSED"
             THEN Campaigns_loop(run, Tail(configs), ads, preview_mode, generator, m, now)
             ELSE Campaigns_loop(ProcessCampaign(run, campaign_name, campaign_config,
                                                 ads, preview_mode, generator, m, now),
                                 Tail(configs), ads, preview_mode, generator, m, now)

\* a local name no statement has bound yet
Unbound == [kind |-> "unbound"]

\* the loop is left: claude_error is bound in the body of the loop only, so
\* that building the result raises when no campaign was processed
AfterLoop(looped) ==
    IF ~IsRaise(looped.raised) /\ looped.claude_error = Unbound
    THEN [looped EXCEPT !.raised = Raised("UnboundLocalError", "claude_error")]
    ELSE looped

\* the tables afterwards, what the run did and the result lambda_handler
\* returns: the summary, or statusCode 500 from the except clause
Response(run, preview_mode, m, now) ==
    [store |-> run.store,
     today |-> now,
     preview_mode |-> preview_mode,
     campaigns |-> run.campaigns,
     flagged |-> run.all_flagged,
     replacements |-> run.all_replacements,
     csv_files |-> run.all_csv_files,
     alerts |-> run.all_emergency_alerts,
     buried |-> run.buried,
     result |-> IF IsRaise(run.raised)
                THEN [statusCode |-> 500, body |-> [error |-> run.raised]]
                ELSE [statusCode |-> 200,
                      body |-> [season |-> get_season_name(m).name,
                                assets_flagged |-> Len(run.all_flagged),
                                replacements_generated |->
                                    Cardinality(run.all_replacements),
                                csv_files |-> Len(run.all_csv_files),
                                emergency_alerts |-> Len(run.all_emergency_alerts),
                                budget_recommendations |->
                                    [i \in 1..Len(run.all_budget_data) |->
                                        run.all_budget_data[i].recommendation],
                                claude_error |-> run.claude_error,
                                preview_mode |-> preview_mode]]]

\* lambda_handler(event, context)
lambda_handler(ev, tables, configs, ads, generator, m, now) ==
    LET preview_mode == Get(ev, "preview_mode", FALSE)
        start == [store |-> tables,
                  all_flagged |-> <<>>,
                  all_replacements |-> {},
                  all_csv_files |-> <<>>,
                  all_budget_data |-> <<>>,
                  all_emergency_alerts |-> <<>>,
                  buried |-> <<>>,
                  claude_error |-> Unbound,
                  campaigns |-> <<>>,
                  raised |-> None]
    IN  Response(AfterLoop(Campaigns_loop(start, configs, ads, preview_mode,
                                          generator, m, now)),
                 preview_mode, m, now)

(***************************************************************************)
(* Inputs of the weekly review                                             *)
(*                                                                         *)
(* The first run is on day 100 and the schedule fires every 7 days.  The   *)
(* asset rows are what Google Ads has recorded for the campaign over time: *)
(* they do not change with the runs, since the handler only proposes the   *)
(* changes (the CSV is uploaded by hand).                                  *)
(***************************************************************************)

\* the runs of the handler in one behaviour
MaxRuns == 3

\* the day of the first run
FirstRunDays == {100}

\* "Triggered every Monday"
DaysBetweenRuns == 7

ReviewMonths == {1, 4, 6, 11}

\* CAMPAIGNS: one campaign that is processed and one without campaign_id
CAMPAIGNS ==
    <<[name |-> "Core Brand", campaign_id |-> "23456",
       asset_group |-> "Core Brand Assets", slug |-> "core_brand"],
      [name |-> "Draft"]>>

AssetRow(text, field_type, date, impressions, clicks) ==
    [asset_text |-> text, field_type |-> field_type, date |-> date,
     impressions |-> impressions, clicks |-> clicks,
     conversions |-> 0, conversions_value |-> 0, cost |-> 500]

ImageRow(resource, field_type, date, impressions, clicks) ==
    [asset_resource |-> resource, asset_name |-> TextImageName,
     field_type |-> field_type, date |-> date,
     impressions |-> impressions, clicks |-> clicks,
     conversions |-> 0, conversions_value |-> 0, cost |-> 500]

\* a headline that has served since day 0 at a CTR of 1.00%, 200 impressions
\* on each date it was reported
VeteranRows ==
    <<AssetRow(TextFlyNets, "HEADLINE", 0, 200, 2),
      AssetRow(TextFlyNets, "HEADLINE", 80, 200, 2),
      AssetRow(TextFlyNets, "HEADLINE", 100, 200, 2),
      AssetRow(TextFlyNets, "HEADLINE", 107, 200, 2)>>

\* well below every floor, and well above
WeakHeadlineRows == <<AssetRow(TextInnovativeNets, "HEADLINE", 95, 600, 6)>>

WeakDescriptionRows == <<AssetRow(TextNiceFishingStuff, "DESCRIPTION", 96, 600, 6)>>

StrongRows == <<AssetRow(TextFlyRods, "HEADLINE", 95, 600, 36)>>

SitelinkRows == <<AssetRow(TextNiceFishingNets, "SITELINK", 95, 600, 6)>>

AssetRowLists ==
    {VeteranRows \o WeakHeadlineRows \o StrongRows,
     WeakHeadlineRows \o VeteranRows \o WeakDescriptionRows \o SitelinkRows}

ImageResource == <<"a", "s", "s", "e", "t", "s", "/", "7">>

ImageRowLists ==
    {<<>>,
     <<ImageRow(ImageResource, "MARKETING_IMAGE", 95, 50, 1),
       ImageRow(ImageResource, "MARKETING_IMAGE", 96, 50, 1)>>,
     <<ImageRow(ImageResource, "MARKETING_IMAGE", 95, 600, 6)>>}

\* get_campaign_budget: 0.0 when the query fails, or $30.00
CampaignBudgets == {0, 3000}

CampaignStatuses == {"ENABLED", "PAUSED"}

\* get_campaign_metrics: $900.00 spent on 10,000 impressions
CampaignMetrics(total_clicks) ==
    [total_spend |-> 90000, impressions |-> 10000, clicks |-> total_clicks,
     ctr |-> RoundPercent(total_clicks, 10000)]

\* a CTR of 4.00% and of 1.00%
CampaignClicks == {400, 100}

\* shopify.get_google_attributed_revenue: $1,800.00
AttributedRevenues == {180000}

\* the event of the schedule, and the event of a preview
Events == {EmptyDict, [preview_mode |-> TRUE]}

GeneratorOutcomes == {"replaces", "raises"}

\* what one invocation meets: the event, the status of the campaign, its
\* clicks and what the copy generator does.  A paused campaign and a failing
\* generator are met in a scheduled run at a CTR of 4.00%.
Invocations ==
    {i \in [event : Events, status : CampaignStatuses, clicks : CampaignClicks,
             generator : GeneratorOutcomes] :
        (i.status = "PAUSED" \/ i.generator = "raises") =>
            /\ i.event = EmptyDict
            /\ i.clicks = 400
            /\ (i.status = "PAUSED" => i.generator = "replaces")}

EmptyStore ==
    [asset_performance |-> EmptyTable,
     budget_performance |-> EmptyTable,
     graveyard |-> EmptyTable]

InitReview ==
    /\ pc = "review"
    /\ month_arg = 0
    /\ month \in ReviewMonths
    /\ season = get_season_name(month).name
    /\ today \in FirstRunDays
    /\ assets = <<>>
    /\ graveyard = <<>>
    /\ ret = NoCall
    /\ BudgetUnused
    /\ EmergencyUnused
    /\ \E rows \in AssetRowLists, image_rows \in ImageRowLists,
          budget \in CampaignBudgets, revenue \in AttributedRevenues :
          campaign = [asset_rows |-> rows, image_rows |-> image_rows,
                      budget |-> budget, revenue |-> revenue,
                      campaign_status |-> "ENABLED",
                      metrics |-> CampaignMetrics(400)]
    /\ findings = <<>>
    /\ audit_ret = NoCall
    /\ event = NoCall
    /\ store = EmptyStore
    /\ review = [runs |-> 0, generator |-> "replaces", log |-> <<>>]

\* one invocation of lambda_handler
WeeklyReview ==
    /\ pc = "review"
    /\ review.runs < MaxRuns
    /\ \E i \in Invocations :
          LET ads == [campaign EXCEPT !.campaign_status = i.status,
                                      !.metrics = CampaignMetrics(i.clicks)]
              r == lambda_handler(i.event, store, CAMPAIGNS, ads, i.generator,
                                  month, today)
          IN  /\ event' = i.event
              /\ campaign' = ads
              /\ store' = r.store
              /\ review' = [runs |-> review.runs + 1,
                            generator |-> i.generator,
                            log |-> Append(review.log, Drop(r, "store"))]
    /\ pc' = "reviewed"
    /\ UNCHANGED <<month_arg, month, season, today, assets, graveyard, ret>>
    /\ UNCHANGED <<findings, audit_ret>>
    /\ UNCHANGED <<budget_vars, emergency_vars>>

\* the schedule: the next run is a week later
NextWeek ==
    /\ pc = "reviewed"
    /\ today' = today + DaysBetweenRuns
    /\ pc' = "review"
    /\ UNCHANGED <<month_arg, month, season, assets, graveyard, ret>>
    /\ UNCHANGED <<budget_vars, emergency_vars, audit_vars, review_vars>>

NextReview == WeeklyReview \/ NextWeek

SpecReview == InitReview /\ [][NextReview]_vars

(***************************************************************************)
(* src/image_manager.py: ImageManager.bootstrap_from_google_ads            *)
(*                                                                         *)
(* The image registry is the list of its entries in the order they were    *)
(* registered; the image_id of an entry is its place in the list (the code *)
(* draws a fresh uuid).  The SHA-256 of the bytes of an image is kept as   *)
(* the bytes themselves.  What the download, the upload to S3 and the      *)
(* vision analysis return does not decide the mappings and is left out of  *)
(* the entry; a row without an image URL is the row error.                 *)
(***************************************************************************)

\* queries.get_all_images
get_all_images(registry) == registry

\* ImageManager._find_by_hash: the image_id of the first entry with the hash,
\* 0 when there is none
find_by_hash(registry, image_hash) ==
    LET hits == {i \in 1..Len(registry) : registry[i].image_hash = image_hash}
    IN  IF hits = {} THEN 0 ELSE Least(hits)

\* queries.get_images_for_campaign: the image_ids of the entries with a
\* mapping of the campaign that has no date_unlinked
get_images_for_campaign(registry, campaign_name) ==
    {i \in 1..Len(registry) :
        \E k \in 1..Len(registry[i].google_ads_assets) :
            Linked(campaign_name, registry[i].google_ads_assets[k])}

\* ImageManager._add_google_ads_mapping
add_google_ads_mapping(registry, image_id, mapping, now) ==
    LET existing_mappings == registry[image_id].google_ads_assets
    IN  IF \E k \in 1..Len(existing_mappings) :
               existing_mappings[k].asset_resource = mapping.asset_resource
        THEN registry
        ELSE [registry EXCEPT ![image_id].google_ads_assets =
                                  Append(existing_mappings,
                                         Put(mapping, "date_linked", now)),
                              ![image_id].status = "in_use"]

\* ImageManager.register_image, called for bytes the registry does not hold
register_image(registry, image_bytes, filename_original, mapping, now) ==
    Append(registry,
           [image_id |-> Len(registry) + 1,
            image_hash |-> image_bytes,
            filename_original |-> filename_original,
            source |-> "google_ads_bootstrap",
            google_ads_assets |-> <<Put(mapping, "date_linked", now)>>,
            status |-> "in_use",
            created_at |-> now])

\* ImageManager._process_bootstrap_row: the registry afterwards and whether
\* the row was a duplicate, was new, or raised
process_bootstrap_row(registry, row, campaign_name, asset_group, now) ==
    LET google_ads_mapping == [asset_resource |-> row.asset_resource,
                               campaign_name |-> campaign_name,
                               asset_group |-> asset_group,
                               field_type |-> row.field_type,
                               asset_name |-> row.asset_name,
                               image_url |-> row.image_url]
        existing == find_by_hash(registry, row.image_bytes)
    IN  IF row.image_url = ""
        THEN [registry |-> registry, outcome |-> "error"]
        ELSE IF existing # 0
        THEN [registry |-> add_google_ads_mapping(registry, existing,
                                                  google_ads_mapping, now),
              outcome |-> "duplicate"]
        ELSE [registry |-> register_image(registry, row.image_bytes, row.asset_name,
                                          google_ads_mapping, now),
              outcome |-> "new"]

\* the mappings of one image as _reconcile_campaign_mappings leaves them
Reconciled(mappings, campaign_name, live_asset_resources, now) ==
    [k \in 1..Len(mappings) |->
        IF /\ Linked(campaign_name, mappings[k])
           /\ mappings[k].asset_resource \notin live_asset_resources
        THEN Put(mappings[k], "date_unlinked", now)
        ELSE mappings[k]]

\* ImageManager._reconcile_campaign_mappings: the registry afterwards and the
\* number of mappings unlinked
reconcile_campaign_mappings(registry, campaign_name, live_asset_resources, now) ==
    LET images == get_images_for_campaign(registry, campaign_name)
        Stale(i) == {k \in 1..Len(registry[i].google_ads_assets) :
                        /\ Linked(campaign_name, registry[i].google_ads_assets[k])
                        /\ registry[i].google_ads_assets[k].asset_resource
                               \notin live_asset_resources}
    IN  [registry |-> [i \in 1..Len(registry) |->
                          IF i \in images
                          THEN [registry[i] EXCEPT !.google_ads_assets =
                                   Reconciled(@, campaign_name,
                                              live_asset_resources, now)]
                          ELSE registry[i]],
         unlinked |-> SumSeq([i \in 1..Len(registry) |->
                                 IF i \in images THEN Cardinality(Stale(i)) ELSE 0])]

\* the loop over the rows of one asset group
RECURSIVE Rows_loop(_, _, _, _, _)
Rows_loop(acc, rows, campaign_name, asset_group, now) ==
    IF rows = <<>> THEN acc
    ELSE LET row == Head(rows)
             r == process_bootstrap_row(acc.registry, row, campaign_name,
                                        asset_group, now)
         IN  Rows_loop([registry |-> r.registry,
                        live_asset_resources |->
                            IF row.asset_resource # ""
                            THEN acc.live_asset_resources \cup {row.asset_resource}
                            ELSE acc.live_asset_resources,
                        total |-> acc.total + 1,
                        new |-> acc.new + (IF r.outcome = "new" THEN 1 ELSE 0),
                        duplicate |-> acc.duplicate +
                                          (IF r.outcome = "duplicate" THEN 1 ELSE 0),
                        errors |-> acc.errors +
                                       (IF r.outcome = "error" THEN 1 ELSE 0)],
                       Tail(rows), campaign_name, asset_group, now)

\* the loop over the enabled asset groups of one campaign
RECURSIVE Groups_loop(_, _, _, _)
Groups_loop(acc, groups, campaign_name, now) ==
    IF groups = <<>> THEN acc
    ELSE Groups_loop(Rows_loop(acc, Head(groups).rows, campaign_name,
                               Head(groups).name, now),
                     Tail(groups), campaign_name, now)

\* the body of the loop over the campaigns, for a campaign of the
\* configuration: the enabled asset groups, their rows, then the reconciling;
\* the result keeps, beside the counts of by_campaign, the rows met and the
\* live set handed to the reconciling
BootstrapCampaign(registry, campaign_name, ag_rows, now) ==
    LET Enabled(ag) == ag.status = "ENABLED"
        enabled_groups == SelectSeq(ag_rows, Enabled)
        start == [registry |-> registry, live_asset_resources |-> {},
                  total |-> 0, new |-> 0, duplicate |-> 0, errors |-> 0]
        processed == Groups_loop(start, enabled_groups, campaign_name, now)
        reconciled == reconcile_campaign_mappings(processed.registry, campaign_name,
                                                  processed.live_asset_resources, now)
    IN  [registry |-> reconciled.registry,
         campaign_name |-> campaign_name,
         live_asset_resources |-> processed.live_asset_resources,
         total |-> processed.total,
         new |-> processed.new,
         duplicate |-> processed.duplicate,
         errors |-> processed.errors,
         unlinked |-> reconciled.unlinked]

\* ImageManager.bootstrap_from_google_ads(campaigns): the registry afterwards
\* and the results of the campaigns it knows, in order
RECURSIVE bootstrap_from_google_ads(_, _, _, _, _)
bootstrap_from_google_ads(registry, names, configured, ads, now) ==
    IF names = <<>> THEN [registry |-> registry, by_campaign |-> <<>>]
    ELSE IF Head(names) \notin configured
    THEN bootstrap_from_google_ads(registry, Tail(names), configured, ads, now)
    ELSE LET r == BootstrapCampaign(registry, Head(names), ads[Head(names)], now)
             rest == bootstrap_from_google_ads(r.registry, Tail(names), configured,
                                               ads, now)
         IN  [registry |-> rest.registry,
              by_campaign |-> <<Drop(r, "registry")>> \o rest.by_campaign]

(***************************************************************************)
(* Inputs of the bootstrap                                                 *)
(*                                                                         *)
(* Three image assets of the account: assets/1 and assets/2 are two        *)
(* uploads of the same picture, assets/3 is another picture.  Each run     *)
(* finds some of them enabled in the enabled asset group of Core Brand,    *)
(* assets/3 enabled in a removed asset group, and assets/1 enabled or not  *)
(* in the asset group of the second campaign.                              *)
(***************************************************************************)

\* the runs of the bootstrap in one behaviour
MaxBootstraps == 3

BootstrapCampaigns == {"Core Brand", "Landing Nets"}

\* the campaigns argument: the configured campaigns and an unknown one
BootstrapNames == <<"Core Brand", "Retired", "Landing Nets">>

ImageAssets == {"assets/1", "assets/2", "assets/3"}

BytesOf(asset_resource) == IF asset_resource = "assets/3" THEN "trout" ELSE "net"

BootstrapRow(asset_resource) ==
    [asset_resource |-> asset_resource,
     field_type |-> "MARKETING_IMAGE",
     asset_name |-> asset_resource,
     image_url |-> "https://example.com/image",
     image_bytes |-> BytesOf(asset_resource)]

\* a row whose asset has no full-size URL
BrokenRow == [BootstrapRow("assets/4") EXCEPT !.image_url = ""]

\* the rows of the assets of S, in the order of their resource names
RECURSIVE RowsOf(_)
RowsOf(S) ==
    IF S = {} THEN <<>>
    ELSE LET first == CHOOSE a \in S : \A b \in S : a = b \/ a = "assets/1"
                                          \/ (a = "assets/2" /\ b = "assets/3")
         IN  <<BootstrapRow(first)>> \o RowsOf(S \ {first})

AssetGroup(name, status, rows) == [name |-> name, status |-> status, rows |-> rows]

\* what Google Ads answers in one run
GoogleAdsImages(live, broken, second) ==
    [c \in BootstrapCampaigns |->
        IF c = "Core Brand"
        THEN <<AssetGroup("On the Water", "REMOVED", RowsOf({"assets/3"})),
               AssetGroup("Core Brand", "ENABLED",
                          RowsOf(live) \o (IF broken THEN <<BrokenRow>> ELSE <<>>))>>
        ELSE <<AssetGroup("Landing Nets", "ENABLED", RowsOf(second))>>]

InitBootstrap ==
    /\ pc = "bootstrap"
    /\ month_arg = 0
    /\ month = 0
    /\ season = ""
    /\ today \in FirstRunDays
    /\ assets = <<>>
    /\ graveyard = <<>>
    /\ ret = NoCall
    /\ BudgetUnused
    /\ EmergencyUnused
    /\ AuditUnused
    /\ event = NoCall
    /\ store = [image_registry |-> <<>>]
    /\ review = [runs |-> 0, log |-> <<>>]

\* one call of manager.bootstrap_from_google_ads(campaigns), on a later day
\* than the call before
BootstrapFromGoogleAds ==
    /\ pc = "bootstrap"
    /\ review.runs < MaxBootstraps
    /\ \E live \in SUBSET ImageAssets, broken \in BOOLEAN, second \in SUBSET {"assets/1"} :
          LET ads == GoogleAdsImages(live, broken, second)
              r == bootstrap_from_google_ads(store.image_registry, BootstrapNames,
                                             BootstrapCampaigns, ads, today)
          IN  /\ event' = [campaigns |-> BootstrapNames, google_ads |-> ads]
              /\ store' = [image_registry |-> r.registry]
              /\ review' = [runs |-> review.runs + 1,
                            log |-> Append(review.log, r.by_campaign)]
    /\ today' = today + 1
    /\ UNCHANGED <<pc, month_arg, month, season, assets, graveyard, ret>>
    /\ UNCHANGED <<budget_vars, emergency_vars, audit_vars>>

NextBootstrap == BootstrapFromGoogleAds

SpecBootstrap == InitBootstrap /\ [][NextBootstrap]_vars

(***************************************************************************)
(* Properties of the analyzer                                              *)
(***************************************************************************)
\* the asset the last call was given
CalledAsset == assets[ret.arg]

\* C1: for every season and every asset with impressions < the season's
\* min_impressions, should_kill returns None, whatever the CTR and the type.
C1_NoKillBelowMinImpressions ==
    (ret.op = "should_kill"
        /\ Get(CalledAsset, "impressions", 0) < THRESHOLDS[season].min_impressions)
    => ret.value = None

\* should_kill has been called on an image asset with a zero CTR and too few
\* impressions for the season
C1_Witness ==
    /\ ret.op = "should_kill"
    /\ CalledAsset.impressions < THRESHOLDS[season].min_impressions
    /\ CalledAsset.ctr = 0
    /\ "asset_type" \in DOMAIN CalledAsset
    /\ CalledAsset.asset_type \in ImageTypes

\* the asset with its conversions, cost and CPA set to zero
WithoutConversionData(a) == Put(Put(Put(a, "conversions", 0), "cost", 0), "cpa", 0)

\* C2: with impressions >= min_impressions and a CTR floor configured for the
\* asset's type in the season, should_kill returns a reason iff ctr < floor
\* (strictly), and the same result as for the asset without its conversions,
\* cost and CPA.
C2_KillIffCtrBelowFloor ==
    ret.op = "should_kill" =>
        LET a == CalledAsset
            th == THRESHOLDS[season]
            key == CtrKey(Get(a, "asset_type", "HEADLINE"))
        IN  (Get(a, "impressions", 0) >= th.min_impressions /\ key \in DOMAIN th)
            => /\ ret.value.kind \in {"reason", "None"}
               /\ (ret.value.kind = "reason") <=> (Get(a, "ctr", 0) < th[key])
               /\ ret.value = should_kill(Self, WithoutConversionData(a))

\* should_kill has given a reason for a long headline with enough impressions
\* and a CTR below the floor, although it has conversions
C2_Witness ==
    /\ ret.op = "should_kill"
    /\ "asset_type" \in DOMAIN CalledAsset
    /\ CalledAsset.asset_type = "LONG_HEADLINE"
    /\ CalledAsset.impressions >= THRESHOLDS[season].min_impressions
    /\ CalledAsset.ctr < THRESHOLDS[season].min_ctr_long_headline
    /\ CalledAsset.conversions > 0
    /\ ret.value.kind = "reason"

\* the seasons of the policy table whose month set holds m
SeasonsOf(m) == {s \in DOMAIN THRESHOLDS : m \in THRESHOLDS[s].months}

\* C9: every month 1..12 is in the month set of exactly one season (the sets
\* are pairwise disjoint and their union is 1..12); get_season_name returns
\* that season for a month of 1..12 and raises for any other month.
C9_MonthsPartitionSeasons ==
    /\ \A m \in 1..12 : Cardinality(SeasonsOf(m)) = 1
    /\ UNION {THRESHOLDS[s].months : s \in DOMAIN THRESHOLDS} = 1..12
    /\ ret.op = "get_season_name" =>
          IF ret.arg \in 1..12
          THEN ret.value.kind = "season" /\ SeasonsOf(ret.arg) = {ret.value.name}
          ELSE IsRaise(ret.value)

\* get_season_name(10) has returned shoulder_season
C9_Witness ==
    /\ ret.op = "get_season_name"
    /\ ret.arg = 10
    /\ ret.value.kind = "season"
    /\ ret.value.name = "shoulder_season"

\* C10: is_new_asset returns true iff the asset has a date_added, its age in
\* days is < new_asset_patience_days and its impressions are
\* < new_asset_patience_impressions.
C10_NewIffYoungAndFewImpressions ==
    ret.op = "is_new_asset" =>
        LET a == CalledAsset
            th == THRESHOLDS[season]
        IN  ret.value.value <=>
               /\ "date_added" \in DOMAIN a
               /\ today - a.date_added < th.new_asset_patience_days
               /\ Get(a, "impressions", 0) < th.new_asset_patience_impressions

\* is_new_asset has returned true for an asset one day short of the patience
\* days and one impression short of the patience impressions
C10_Witness ==
    /\ ret.op = "is_new_asset"
    /\ "date_added" \in DOMAIN CalledAsset
    /\ today - CalledAsset.date_added = THRESHOLDS[season].new_asset_patience_days - 1
    /\ CalledAsset.impressions = THRESHOLDS[season].new_asset_patience_impressions - 1
    /\ ret.value.value

(***************************************************************************)
(* Properties of the budget engine                                         *)
(***************************************************************************)
\* the decision tree as stated, on the exact value of
\* perf = current_roas / target_roas - 1, every breakpoint inclusive;
\* budgets to the cent
C5_Stated(a) ==
    LET b == a.current_daily_budget
        target == IF a.target_roas <= 0 THEN 200 ELSE a.target_roas
        r == a.current_roas
        reduced == RoundCents(80 * b, 100)
    IN  IF b <= 0 THEN <<"hold", 1000>>
        ELSE IF 100 * a.actual_daily_spend_avg < 80 * b /\ b > 10000
        THEN <<"hold", b>>
        ELSE IF 10 * r >= 11 * target THEN <<"increase", RoundCents(120 * b, 100)>>
        ELSE IF 10 * r >= 9 * target THEN <<"hold", b>>
        ELSE IF 10 * r >= 7 * target
        THEN <<"decrease", IF reduced > 1000 THEN reduced ELSE 1000>>
        ELSE <<"pause", 1000>>

\* C5: calculate_budget_recommendation evaluates its branches in the stated
\* order, first match wins: budget <= 0 holds at 10.0; utilization < 80 with
\* budget > 100 holds at the current budget; then perf >= 0.10 increases to
\* 1.20 x current, -0.10 <= perf < 0.10 holds, -0.30 <= perf < -0.10 decreases
\* to max(0.80 x current, 10.0) and perf < -0.30 pauses at 10.0, the
\* breakpoints inclusive as listed.
C5_DecisionTree ==
    budget_ret # BudgetIdle =>
        /\ budget_ret.action = C5_Stated(budget_in)[1]
        /\ budget_ret.recommended_budget = C5_Stated(budget_in)[2]

\* C6: whenever current_budget > 100 and utilization < 80 the engine returns
\* hold at the current budget with market_ceiling_detected true, whatever the
\* two ROAS values are; in every other case market_ceiling_detected is false.
C6_CeilingShortCircuits ==
    budget_ret # BudgetIdle =>
        LET b == budget_in.current_daily_budget
            low == /\ b > 10000
                   /\ 100 * budget_in.actual_daily_spend_avg < 80 * b
        IN  /\ low => /\ budget_ret.action = "hold"
                      /\ budget_ret.recommended_budget = b
                      /\ budget_ret.market_ceiling_detected
            /\ ~low => ~budget_ret.market_ceiling_detected

\* the engine has held a $300 budget spending $200 a day at a ROAS of 250
\* against a target of 200, and flagged the market ceiling
C6_Witness ==
    /\ budget_ret # BudgetIdle
    /\ budget_in.current_daily_budget = 30000
    /\ budget_in.actual_daily_spend_avg <= 23999
    /\ budget_in.current_roas = 250
    /\ budget_in.target_roas = 200
    /\ budget_ret.action = "hold"
    /\ budget_ret.market_ceiling_detected

\* two calls that differ in current_roas only, the earlier with the lower one
RoasRaised ==
    /\ budget_prev # BudgetIdle
    /\ budget_prev.args.current_roas <= budget_in.current_roas

\* C7 as stated: for fixed budget, spend and target the recommended budget is
\* non-decreasing as current_roas increases.
C7_Monotone_AsStated ==
    RoasRaised =>
        budget_prev.result.recommended_budget <= budget_ret.recommended_budget

\* C7 amended: the same, for a current budget that is <= 0 or >= 10.0.
C7_MonotoneFromTheFloorUp ==
    (/\ RoasRaised
     /\ \/ budget_in.current_daily_budget <= 0
        \/ budget_in.current_daily_budget >= MIN_BUDGET)
    => budget_prev.result.recommended_budget <= budget_ret.recommended_budget

\* a $12 budget was first cut to the $10 floor (decrease) and then, at a
\* higher ROAS, raised to $14.40 (increase)
C7_Witness ==
    /\ RoasRaised
    /\ budget_in.current_daily_budget = 1200
    /\ budget_prev.result.action = "decrease"
    /\ budget_prev.result.recommended_budget = MIN_BUDGET
    /\ budget_ret.action = "increase"
    /\ budget_ret.recommended_budget = 1440

\* C8 as stated: for every input the recommended budget is >= 10.0.
C8_Floor_AsStated ==
    budget_ret # BudgetIdle => budget_ret.recommended_budget >= 1000

\* C8 amended: the recommended budget is >= 10.0 whenever the current budget
\* is <= 0 or >= 10.0, and in the decrease and pause branches for every
\* budget.
C8_FloorWhereItApplies ==
    (/\ budget_ret # BudgetIdle
     /\ \/ budget_in.current_daily_budget <= 0
        \/ budget_in.current_daily_budget >= 1000
        \/ budget_ret.action \in {"decrease", "pause"})
    => budget_ret.recommended_budget >= 1000

\* a $12 budget 20% below its target ROAS: 0.80 x 12 = 9.60 is lifted to 10.0
C8_Witness ==
    /\ budget_ret # BudgetIdle
    /\ budget_in.current_daily_budget = 1200
    /\ budget_in.current_roas = 160
    /\ budget_in.target_roas = 200
    /\ budget_ret.action = "decrease"
    /\ budget_ret.recommended_budget = 1000

(***************************************************************************)
(* Properties of flag_underperformers                                      *)
(***************************************************************************)
\* flag_underperformers has returned a list
FlagReturned == ret.op = "flag_underperformers" /\ ret.value.kind = "list"

\* C3: flag_underperformers never returns an asset whose status is killed or
\* paused, whatever its impressions, CTR and age.
C3_NeverReturnsKilledOrPaused ==
    FlagReturned =>
        \A k \in 1..Len(ret.value.items) :
            Get(assets[ret.value.items[k]], "status", "None") \notin {"killed", "paused"}

\* flag_underperformers has returned a non-empty list for a list that also
\* holds a paused asset with enough impressions and a CTR below its floor
C3_Witness ==
    /\ FlagReturned
    /\ Len(ret.value.items) > 0
    /\ \E i \in 1..Len(ret.before) :
          /\ Get(ret.before[i], "status", "None") = "paused"
          /\ ~is_new_asset(Self, ret.before[i], today)
          /\ ret.before[i].asset_type = "DESCRIPTION"
          /\ ret.before[i].impressions >= THRESHOLDS[season].min_impressions
          /\ ret.before[i].ctr < THRESHOLDS[season].min_ctr_description

\* the indices of the assets the claim says are flagged, in input order
C4_Qualifying(list) ==
    SelectSeq([i \in 1..Len(list) |-> i],
              LAMBDA i : /\ ~is_new_asset(Self, list[i], today)
                         /\ Get(list[i], "status", "None") \notin {"killed", "paused"}
                         /\ should_kill(Self, list[i]).kind = "reason")

\* C4: flag_underperformers returns, in input order and with no cap, exactly
\* the input assets that are not new, are not killed or paused and for which
\* should_kill gives a reason; every returned asset carries a kill_reason and
\* a diagnosis.
C4_FlagsExactlyTheQualifying ==
    ret.op = "flag_underperformers" =>
        /\ ret.value.kind = "list"
        /\ ret.value.items = C4_Qualifying(ret.before)
        /\ \A k \in 1..Len(ret.value.items) :
              LET a == assets[ret.value.items[k]]
              IN  /\ "kill_reason" \in DOMAIN a
                  /\ a.kill_reason.kind = "reason"
                  /\ "diagnosis" \in DOMAIN a
                  /\ a.diagnosis.kind = "diagnosis"

(***************************************************************************)
(* Claims about diagnose_failure                                           *)
(***************************************************************************)
Diagnosed == ret.op = "diagnose_failure"

\* the lower-cased text and the word set of the asset diagnose_failure got
DiagnosedText == Lower(Get(CalledAsset, "asset_text", <<>>))

DiagnosedWords == SetOf(Split(DiagnosedText))

\* the indices of the hype phrases and of the gatekeeping words in the text
HypeHits ==
    {i \in 1..Len(KNOWN_FAILURE_PATTERNS) :
        Contains(Lower(KNOWN_FAILURE_PATTERNS[i]), DiagnosedText)}

GateHits ==
    {i \in 1..Len(gatekeeping_words) : Contains(gatekeeping_words[i], DiagnosedText)}

ShortLongHeadline ==
    /\ Get(CalledAsset, "asset_type", "") = "LONG_HEADLINE"
    /\ Len(Split(DiagnosedText)) <= 2

\* twice the number of the asset's words that the graveyard entry shares
TwiceShared(grave) ==
    2 * Cardinality(DiagnosedWords
                    \cap SetOf(Split(Lower(Get(grave, "asset_text", <<>>)))))

\* C11: for a text asset the first matching rule wins, in the order hype
\* phrase (first phrase of the list), long headline of at most two words,
\* gatekeeping word (first word of the list), graveyard similarity, default;
\* a later rule's result is never returned when an earlier rule matches.
C11_FirstMatchingRuleWins ==
    (Diagnosed /\ Get(CalledAsset, "asset_type", "") \notin ImageTypes) =>
        IF HypeHits # {}
        THEN ret.value = Diagnosis("voice", "hype", KNOWN_FAILURE_PATTERNS[FirstIn(HypeHits)])
        ELSE IF ShortLongHeadline
        THEN ret.value = Diagnosis("specificity", "short", <<>>)
        ELSE IF GateHits # {}
        THEN ret.value = Diagnosis("voice", "gatekeeping", gatekeeping_words[FirstIn(GateHits)])
        ELSE /\ ret.value.category = "angle"
             /\ ret.value.rule \in {"similar", "default"}
             /\ ret.value.rule = "similar" =>
                    \E i \in 1..Len(graveyard) :
                        /\ ret.value.quoted = Get(graveyard[i], "asset_text", <<>>)
                        /\ TwiceShared(graveyard[i]) >= Cardinality(DiagnosedWords)
             /\ ret.value.rule = "default" =>
                    \A i \in 1..Len(graveyard) :
                        TwiceShared(graveyard[i]) <= Cardinality(DiagnosedWords)

\* diagnose_failure has answered with the hype phrase for a two-word long
\* headline that holds a hype phrase and a gatekeeping word and is in the
\* graveyard word for word
C11_Witness ==
    /\ Diagnosed
    /\ CalledAsset.asset_type = "LONG_HEADLINE"
    /\ HypeHits # {}
    /\ GateHits # {}
    /\ ShortLongHeadline
    /\ \E i \in 1..Len(graveyard) : TwiceShared(graveyard[i]) = 2 * Cardinality(DiagnosedWords)
    /\ ret.value.rule = "hype"

\* C12: for an asset of any of the three image types diagnose_failure returns
\* the fixed visual_fatigue diagnosis, whatever the text and the graveyard.
C12_ImageIsVisualFatigue ==
    (Diagnosed /\ Get(CalledAsset, "asset_type", "") \in ImageTypes) =>
        ret.value = Diagnosis("visual_fatigue", "image", <<>>)

\* diagnose_failure has been called on a portrait image whose text holds a hype
\* phrase, with a graveyard that is not empty
C12_Witness ==
    /\ Diagnosed
    /\ CalledAsset.asset_type = "PORTRAIT_MARKETING_IMAGE"
    /\ HypeHits # {}
    /\ graveyard # <<>>
    /\ ret.value.category = "visual_fatigue"

\* the graveyard entries that share at least half of the asset's words
AtLeastHalf ==
    {i \in 1..Len(graveyard) :
        /\ DiagnosedWords # {}
        /\ TwiceShared(graveyard[i]) >= Cardinality(DiagnosedWords)}

\* C13: when no hype, specificity or gatekeeping rule matches, the diagnosis
\* names the first graveyard entry, in the given order, that shares at least
\* half of the asset's words, and is the default one only if no entry does.
C13_FirstEntryWithHalfTheWords ==
    (/\ Diagnosed
     /\ Get(CalledAsset, "asset_type", "") \notin ImageTypes
     /\ HypeHits = {}
     /\ ~ShortLongHeadline
     /\ GateHits = {}) =>
        IF AtLeastHalf # {}
        THEN ret.value = Diagnosis("angle", "similar",
                            Get(graveyard[FirstIn(AtLeastHalf)], "asset_text", <<>>))
        ELSE ret.value = Diagnosis("angle", "default", <<>>)

(***************************************************************************)
(* Claims about repeated flagging and the image floors                     *)
(***************************************************************************)
\* C14: a second call of flag_underperformers on the list the first call
\* stamped, with the same graveyard on the same date, returns the same assets
\* with the same kill_reason and the same diagnosis as the first call.
C14_SecondCallSameResult ==
    [][(ret.op = "flag_underperformers" /\ ret'.op = "flag_underperformers") =>
          /\ ret'.value = ret.value
          /\ assets' = assets]_vars

\* flag_underperformers has returned two assets for a list that its earlier
\* call had already stamped with kill_reason and diagnosis
C14_Witness ==
    /\ FlagReturned
    /\ Len(ret.value.items) = 2
    /\ \A i \in 1..Len(ret.before) :
          /\ "kill_reason" \in DOMAIN ret.before[i]
          /\ "diagnosis" \in DOMAIN ret.before[i]
    /\ assets = ret.before

\* C15: in every season each image type has a CTR floor of 1.0: should_kill on
\* an image asset with impressions >= min_impressions returns a reason naming
\* the CTR and the type when ctr < 1.0 and None when ctr >= 1.0, and does not
\* raise.
C15_ImageFloorIsOne ==
    (/\ ret.op = "should_kill"
     /\ Get(CalledAsset, "asset_type", "") \in ImageTypes
     /\ Get(CalledAsset, "impressions", 0) >= THRESHOLDS[season].min_impressions) =>
        /\ \A t \in ImageTypes : CtrKey(t) \in DOMAIN THRESHOLDS[season]
        /\ IF Get(CalledAsset, "ctr", 0) < 100
           THEN /\ ret.value.kind = "reason"
                /\ ret.value.ctr = Get(CalledAsset, "ctr", 0)
                /\ ret.value.asset_type = CalledAsset.asset_type
           ELSE ret.value = None

(***************************************************************************)
(* Claims about check_emergency_conditions                                 *)
(***************************************************************************)
EmergencyChecked == alerts.op = "check_emergency_conditions"

\* the alerts returned that carry the title
AlertsTitled(title) == {i \in 1..Len(alerts.items) : alerts.items[i].title = title}

CtrCollapseEmitted == AlertsTitled("CTR Dropped 50%+ Week-Over-Week") # {}

RunawayEmitted == AlertsTitled("Spending 2x Budget with Low ROAS") # {}

CeilingEmitted == AlertsTitled("Market Ceiling Detected") # {}

\* the CTRs of the most recent four history entries, all of them when fewer
MostRecentCtrs ==
    [i \in 1..Len(FirstFour(history)) |-> Get(history[i], "avg_ctr", 0)]

\* C16: the CTR-collapse alert is emitted if and only if the history has at
\* least 2 entries, the average CTR over the most recent 4 history entries
\* (all when fewer) is > 0 and the current CTR is < 50% of that average.
C16_CtrCollapseIffBelowHalfAverage ==
    EmergencyChecked =>
        (CtrCollapseEmitted <=>
            /\ Len(history) >= 2
            /\ SumSeq(MostRecentCtrs) > 0
            /\ 2 * Len(MostRecentCtrs) * Get(budget_data, "avg_ctr", 0)
                   < SumSeq(MostRecentCtrs))

\* the values the budget-runaway and market-ceiling checks read
TargetBudget == Get(budget_data, "daily_budget_target", 0)

DailySpend == Get(budget_data, "actual_daily_spend_avg", 0)

RoasBelowTarget ==
    Get(budget_data, "roas_percent", 0) < Get(budget_data, "target_roas_percent", 200)

\* every budget-runaway alert returned is HIGH and sets the budget to the target
RunawayCapsAtTarget ==
    \A i \in AlertsTitled("Spending 2x Budget with Low ROAS") :
        /\ alerts.items[i].severity = "HIGH"
        /\ alerts.items[i].auto_action = [set_daily_budget_to |-> TargetBudget]

\* C17 as stated: the budget-runaway alert, with its auto_action, is emitted
\* if and only if daily_spend > 2 x target_budget and roas < target_roas.
C17_Runaway_AsStated ==
    EmergencyChecked =>
        /\ RunawayEmitted <=> (DailySpend > 2 * TargetBudget /\ RoasBelowTarget)
        /\ RunawayCapsAtTarget

\* C17: the budget-runaway HIGH alert, carrying the auto_action that sets the
\* daily budget to the target, is emitted if and only if target_budget > 0,
\* daily_spend > 2 x target_budget and roas < target_roas.
C17_RunawayWithPositiveTarget ==
    EmergencyChecked =>
        /\ RunawayEmitted <=>
              (TargetBudget > 0 /\ DailySpend > 2 * TargetBudget /\ RoasBelowTarget)
        /\ RunawayCapsAtTarget

\* the runaway alert has been emitted for a spend one cent above twice the
\* target and a ROAS one point below its target
C17_Witness ==
    /\ EmergencyChecked
    /\ RunawayEmitted
    /\ DailySpend = 2 * TargetBudget + 1
    /\ Get(budget_data, "roas_percent", 0) + 1 = Get(budget_data, "target_roas_percent", 200)

\* C18: the Market Ceiling INFO alert is emitted if and only if utilization <
\* 80 and target_budget > 100, whatever the other two checks do and whatever
\* market_ceiling_detected says; each check gives zero or one alert and none
\* suppresses another.
C18_CeilingIndependentOfTheOthers ==
    EmergencyChecked =>
        /\ CeilingEmitted <=>
              (Get(budget_data, "budget_utilization_percent", 100) < 80
                  /\ TargetBudget > 10000)
        /\ \A i \in AlertsTitled("Market Ceiling Detected") :
              alerts.items[i].severity = "INFO"
        /\ CtrCollapseEmitted <=> CtrCollapse(budget_data, history) # <<>>
        /\ RunawayEmitted <=> BudgetRunaway(budget_data) # <<>>
        /\ \A a \in {alerts.items[i] : i \in 1..Len(alerts.items)} :
              Cardinality(AlertsTitled(a.title)) = 1
        /\ Len(alerts.items) =
              Cardinality({t \in {"ctr"} : CtrCollapseEmitted})
              + Cardinality({t \in {"runaway"} : RunawayEmitted})
              + Cardinality({t \in {"ceiling"} : CeilingEmitted})

\* the three alerts have been emitted in one call, for a snapshot in which the
\* budget engine had detected no market ceiling
C18_Witness ==
    /\ EmergencyChecked
    /\ CtrCollapseEmitted
    /\ RunawayEmitted
    /\ CeilingEmitted
    /\ ~budget_data.market_ceiling_detected

(***************************************************************************)
(* Claims about the auditor                                                *)
(***************************************************************************)
Scored == audit_ret.op = "_calculate_score"

\* the number of findings of the severity
NumberOf(severity) ==
    Cardinality({i \in 1..Len(findings) : findings[i].severity = severity})

\* 100 - 15 x CRITICAL - 5 x WARNING, clamped at 0
ClampedScore ==
    LET raw == 100 - 15 * NumberOf("CRITICAL") - 5 * NumberOf("WARNING")
    IN  IF raw < 0 THEN 0 ELSE raw

\* C19: for every list of findings the health score is max(0, 100 - 15 x
\* CRITICAL findings - 5 x WARNING findings), lies in 0..100, and the grade is
\* A from 90, B from 75, C from 60, D from 40 and F below.
C19_ScoreAndGrade ==
    Scored =>
        /\ audit_ret.score = ClampedScore
        /\ audit_ret.score \in 0..100
        /\ audit_ret.grade =
              (IF audit_ret.score >= 90 THEN "A"
               ELSE IF audit_ret.score >= 75 THEN "B"
               ELSE IF audit_ret.score >= 60 THEN "C"
               ELSE IF audit_ret.score >= 40 THEN "D"
               ELSE "F")

\* seven CRITICAL findings, 105 points of deductions, have been scored 0 and F
C19_Witness ==
    /\ Scored
    /\ NumberOf("CRITICAL") = 7
    /\ audit_ret.score = 0
    /\ audit_ret.grade = "F"

AssetHealthChecked ==
    /\ pc = "checked"
    /\ campaign # NoCall
    /\ ~IsRaise(campaign.assets)

\* the number of the campaign's assets of the type whose status is active
ActiveOfType(asset_type) ==
    Cardinality({i \in 1..Len(campaign.assets.items) :
                    /\ Get(campaign.assets.items[i], "status", "None") = "active"
                    /\ Get(campaign.assets.items[i], "asset_type", "None") = asset_type})

BelowMinimums ==
    \/ ActiveOfType("HEADLINE") < 3
    \/ ActiveOfType("DESCRIPTION") < 2
    \/ ActiveOfType("LONG_HEADLINE") < 1

TextMinimumFindings ==
    {i \in 1..Len(findings) : findings[i].check = "text_asset_minimums"}

\* C20: the text_asset_minimums check of a campaign whose asset records load
\* yields exactly one finding, CRITICAL (15 points) if and only if the active
\* assets hold fewer than 3 headlines, fewer than 2 descriptions or no long
\* headline, and PASS otherwise; assets that are not active are not counted.
C20_TextMinimumsOverActiveAssets ==
    AssetHealthChecked =>
        /\ Cardinality(TextMinimumFindings) = 1
        /\ \A i \in TextMinimumFindings :
              /\ findings[i].severity = (IF BelowMinimums THEN "CRITICAL" ELSE "PASS")
              /\ findings[i].value.headlines = ActiveOfType("HEADLINE")
              /\ BelowMinimums =>
                    /\ Deduction(findings[i]) = 15
                    /\ calculate_score(<<findings[i]>>).score = 85
              /\ ~BelowMinimums => calculate_score(<<findings[i]>>).score = 100
        /\ Scored =>
              audit_ret.score <= 100 - (IF BelowMinimums THEN 15 ELSE 0)

\* the check has given CRITICAL for a campaign that has five headlines, three
\* descriptions and two long headlines, of which two, two and one are active
C20_Witness ==
    /\ AssetHealthChecked
    /\ Scored
    /\ ActiveOfType("HEADLINE") = 2
    /\ ActiveOfType("DESCRIPTION") = 2
    /\ ActiveOfType("LONG_HEADLINE") = 1
    /\ Len(OfType(campaign.assets.items, "HEADLINE")) = 5
    /\ Len(OfType(campaign.assets.items, "DESCRIPTION")) = 3
    /\ Len(OfType(campaign.assets.items, "LONG_HEADLINE")) = 2
    /\ \E i \in TextMinimumFindings : findings[i].severity = "CRITICAL"

(***************************************************************************)
(* Properties of the performance trend checks                              *)
(***************************************************************************)

\* the trend checks have run on a stored history that is not empty
TrendsChecked ==
    /\ pc = "checked"
    /\ ~IsRaise(campaign.history)
    /\ campaign.history.items # <<>>

\* the severities the findings carry for a check, one per finding of the check
SeveritiesOf(check) ==
    [i \in {j \in DOMAIN findings : findings[j].check = check} |->
        findings[i].severity]

\* the check is reported once, with the severity
ReportedOnce(check, severity) ==
    /\ Cardinality(DOMAIN SeveritiesOf(check)) = 1
    /\ \A i \in DOMAIN SeveritiesOf(check) : SeveritiesOf(check)[i] = severity

StoredWeeks == campaign.history.items

\* the ROAS of the i-th newest stored week, 0 when the week carries none
StoredRoas(i) == Get(StoredWeeks[i], "roas_percent", 0)

\* the utilization of the i-th newest stored week, 0 when the week carries none
StoredUtil(i) == Get(StoredWeeks[i], "budget_utilization_percent", 0)

Audited == pc = "audited" /\ audit_ret.op = "audit_all"

AuditedNames == campaign.config.campaigns

\* the summary service gave no usable reply: no API key, the request raised,
\* the response was not OK, or reading the reply raised
GeneratorFailed ==
    \/ campaign.anthropic_key.kind = "None"
    \/ campaign.anthropic_key.value = ""
    \/ IsRaise(campaign.service)
    \/ ~campaign.service.ok
    \/ IsRaise(ReadReply(campaign.service))

\* the places of the findings of a severity, among all findings in audit order
PlacesOf(severity) == {i \in DOMAIN findings : findings[i].severity = severity}

\* the k-th smallest member of a set of numbers
Nth(S, k) == CHOOSE i \in S : Cardinality({j \in S : j <= i}) = k

Smaller(a, b) == IF a <= b THEN a ELSE b

\* the score and grade of a list of findings: 100 less 15 per CRITICAL and 5 per
\* WARNING, not below 0
ScoreOf(fs) ==
    LET lost == 15 * Cardinality({i \in DOMAIN fs : fs[i].severity = "CRITICAL"})
                + 5 * Cardinality({i \in DOMAIN fs : fs[i].severity = "WARNING"})
    IN  IF lost > 100 THEN 0 ELSE 100 - lost

GradeOf(score) ==
    IF score >= 90 THEN "A" ELSE IF score >= 75 THEN "B"
    ELSE IF score >= 60 THEN "C" ELSE IF score >= 40 THEN "D" ELSE "F"

\* the results carry, per configured campaign and in order, the findings of its
\* checks and their score and grade
ResultsFromChecks ==
    /\ Len(audit_ret.campaigns) = Len(AuditedNames)
    /\ \A i \in DOMAIN AuditedNames :
        LET fs == campaign.checks[AuditedNames[i]]
        IN  audit_ret.campaigns[i] =
                [campaign_name |-> AuditedNames[i],
                 health_score |-> ScoreOf(fs),
                 grade |-> GradeOf(ScoreOf(fs)),
                 findings |-> fs]

\* "name: score/100 (grade)" for the i-th campaign
PartOf(i) ==
    <<AuditedNames[i], ": ", ScoreOf(campaign.checks[AuditedNames[i]]), "/100 (",
      GradeOf(ScoreOf(campaign.checks[AuditedNames[i]])), ")">>

\* the template summary for up to two campaigns
TemplateSummary ==
    <<"Audit complete. ">>
    \o (CASE Len(AuditedNames) = 0 -> <<>>
          [] Len(AuditedNames) = 1 -> PartOf(1)
          [] Len(AuditedNames) = 2 -> PartOf(1) \o <<", ">> \o PartOf(2))
    \o <<".">>
    \o (IF PlacesOf("CRITICAL") = {} THEN <<>>
        ELSE <<" ", Cardinality(PlacesOf("CRITICAL")),
               " critical issue(s) need immediate attention.">>)
    \o (IF PlacesOf("WARNING") = {} THEN <<>>
        ELSE <<" ", Cardinality(PlacesOf("WARNING")), " warning(s) to review.">>)

\* every CRITICAL finding and then the first five WARNING findings, in audit
\* order, each as its tag and message
TemplateRecommendations ==
    LET nc == Cardinality(PlacesOf("CRITICAL"))
        nw == Smaller(Cardinality(PlacesOf("WARNING")), 5)
    IN  [k \in 1..(nc + nw) |->
            IF k <= nc
            THEN <<"[CRITICAL] ", findings[Nth(PlacesOf("CRITICAL"), k)].message>>
            ELSE <<"[WARNING] ", findings[Nth(PlacesOf("WARNING"), k - nc)].message>>]

\* C23: whenever the summary service is unavailable or fails, audit_all returns
\* the template summary and recommendations built from the campaigns' scores
\* and grades and the CRITICAL and WARNING findings; the per-campaign results
\* are those of the checks, whatever the service did.
C23_FallbackSummaryOnFailure ==
    Audited =>
        /\ ResultsFromChecks
        /\ GeneratorFailed =>
            /\ audit_ret.summary = TemplateSummary
            /\ audit_ret.recommendations = TemplateRecommendations

\* a key and an OK response whose reply cannot be read, for two campaigns with
\* a critical finding and more than five warnings
C23_Witness ==
    /\ Audited
    /\ campaign.anthropic_key = Str("sk-key")
    /\ ~IsRaise(campaign.service)
    /\ campaign.service.ok
    /\ IsRaise(ReadReply(campaign.service))
    /\ ReadReply(campaign.service).exc = "JSONDecodeError"
    /\ Len(AuditedNames) = 2
    /\ PlacesOf("CRITICAL") # {}
    /\ Cardinality(PlacesOf("WARNING")) > 5
    /\ audit_ret.summary = TemplateSummary
    /\ Len(audit_ret.recommendations) = Cardinality(PlacesOf("CRITICAL")) + 5

(***************************************************************************)
(* Properties of the analyzer on partially populated records               *)
(***************************************************************************)

\* the record lacks one of its numeric fields
LacksNumeric(asset) == NumericFields \ DOMAIN asset # {}

LacksImpressions(asset) == "impressions" \notin DOMAIN asset

\* C24 as stated: for a record that lacks any numeric field should_kill returns
\* no-kill and raises nothing, and flag_underperformers does not flag it and
\* raises nothing on a list of such records.
C24_PartialRecordIsNeverKilled ==
    /\ (ret.op = "should_kill" /\ LacksNumeric(assets[ret.arg])) => ret.value = None
    /\ ret.op = "flag_underperformers" =>
        /\ (\A i \in 1..Len(ret.before) : LacksNumeric(ret.before[i])) =>
                ret.value.kind = "list"
        /\ ret.value.kind = "list" =>
                \A k \in 1..Len(ret.value.items) :
                    ~LacksNumeric(ret.before[ret.value.items[k]])

\* C24, amended: for a record that lacks impressions, whatever else it lacks,
\* should_kill returns no-kill and raises nothing, and flag_underperformers
\* does not flag it and raises nothing on a list of such records.
C24_NoImpressionsIsNeverKilled ==
    /\ (ret.op = "should_kill" /\ LacksImpressions(assets[ret.arg])) =>
            ret.value = None
    /\ ret.op = "flag_underperformers" =>
        /\ (\A i \in 1..Len(ret.before) : LacksImpressions(ret.before[i])) =>
                ret.value.kind = "list"
        /\ ret.value.kind = "list" =>
                \A k \in 1..Len(ret.value.items) :
                    ~LacksImpressions(ret.before[ret.value.items[k]])

\* flag_underperformers has flagged a full record and passed over an old
\* record without impressions and CTR next to it
C24_Witness ==
    /\ FlagReturned
    /\ Len(ret.before) = 2
    /\ Len(ret.value.items) = 1
    /\ \E i \in 1..2 :
        /\ LacksImpressions(ret.before[i])
        /\ "ctr" \notin DOMAIN ret.before[i]
        /\ ~is_new_asset(Self, ret.before[i], today)
        /\ ret.value.items[1] # i

(***************************************************************************)
(* Properties of the weekly review                                         *)
(***************************************************************************)
\* the runs so far, oldest first, and the latest of them
Runs == review.log

LastRun == Runs[Len(Runs)]

HasRun == Runs # <<>>

\* the run returned statusCode 200
Completed(r) == r.result.statusCode = 200

\* asset_changes_enabled, as the handler reads it in month m
AssetChangesEnabled(m) == Get(get_thresholds(m), "asset_changes_enabled", TRUE)

MonitorOnlyMonths == {1, 2, 11, 12}

\* the text assets the run collected for its campaign, as flagging left them
CollectedBy(r) == IF r.campaigns = <<>> THEN <<>> ELSE r.campaigns[1].assets

\* the asset ids of the run's flagged assets
FlaggedIds(r) == {r.flagged[i].asset_id : i \in 1..Len(r.flagged)}

\* C25: deep-winter and low-season months are monitor-only: asset changes are
\* disabled in them and enabled in the other months, and a run in such a month
\* without preview_mode flags nothing, hands nothing to the graveyard,
\* generates no replacement and builds no CSV.
C25_WinterIsMonitorOnly ==
    HasRun =>
        /\ AssetChangesEnabled(month) = (month \notin MonitorOnlyMonths)
        /\ (month \in MonitorOnlyMonths /\ ~LastRun.preview_mode) =>
              /\ LastRun.flagged = <<>>
              /\ LastRun.buried = <<>>
              /\ DOMAIN store.graveyard = {}
              /\ LastRun.replacements = {}
              /\ LastRun.csv_files = <<>>

\* a graveyard record of the asset, written on the day of the run
Buried(asset, r) ==
    \E k \in DOMAIN store.graveyard :
        /\ store.graveyard[k].asset_id = asset.asset_id
        /\ store.graveyard[k].date_killed = r.today
        /\ store.graveyard[k].kill_reason = asset.kill_reason

\* C26: the graveyard is append-only: every asset flagged by a completed run
\* with asset changes enabled and preview off, the latest or an earlier one,
\* has its record of that run in the graveyard.
C26_GraveyardIsAppendOnly ==
    \A n \in 1..Len(Runs) :
        (Completed(Runs[n]) /\ AssetChangesEnabled(month) /\ ~Runs[n].preview_mode) =>
            \A i \in 1..Len(Runs[n].flagged) : Buried(Runs[n].flagged[i], Runs[n])

\* C27: a run with preview_mode = true leaves the three tables exactly as they
\* were, generates no replacement and builds no CSV, and still analyses the
\* assets of every campaign it processes, in any season.
C27_PreviewHasNoSideEffects ==
    [][(pc = "review" /\ pc' = "reviewed" /\ Get(event', "preview_mode", FALSE)) =>
          /\ store' = store
          /\ review'.log[Len(review'.log)].replacements = {}
          /\ review'.log[Len(review'.log)].csv_files = <<>>
          /\ \A i \in 1..Len(review'.log[Len(review'.log)].campaigns) :
                review'.log[Len(review'.log)].campaigns[i].analysed]_vars

\* the first date, up to the day of the run, on which Google Ads reported the
\* asset
FirstSeen(asset, r) ==
    Earliest({campaign.asset_rows[i].date : i \in
                 {j \in 1..Len(campaign.asset_rows) :
                     /\ campaign.asset_rows[j].asset_text = asset.asset_text
                     /\ campaign.asset_rows[j].date <= r.today}})

\* impressions >= min_impressions and CTR below the floor of the asset's type
BelowFloor(asset, m) ==
    /\ asset.impressions >= get_thresholds(m).min_impressions
    /\ CtrKey(asset.asset_type) \in DOMAIN get_thresholds(m)
    /\ asset.ctr < get_thresholds(m)[CtrKey(asset.asset_type)]

\* C28: in a completed run with asset changes enabled, every collected asset
\* has the date it was first seen as its date_added, and one that has served
\* for new_asset_patience_days or more, with impressions >= min_impressions
\* and a CTR below its floor, is flagged.
C28_VeteranAssetIsNeverNew ==
    (HasRun /\ Completed(LastRun) /\ AssetChangesEnabled(month)) =>
        \A i \in 1..Len(CollectedBy(LastRun)) :
            LET asset == CollectedBy(LastRun)[i]
                first == FirstSeen(asset, LastRun)
            IN  /\ asset.date_added = first
                /\ (/\ LastRun.today - first >=
                           get_thresholds(month).new_asset_patience_days
                    /\ BelowFloor(asset, month)) =>
                      asset.asset_id \in FlaggedIds(LastRun)

\* the earlier runs whose snapshot is in the budget-performance table
EarlierSnapshots ==
    {n \in 1..(Len(Runs) - 1) :
        /\ Completed(Runs[n])
        /\ <<Runs[n].campaigns[1].campaign_name, Runs[n].today>> \in
               DOMAIN store.budget_performance}

RECURSIVE SumCtr(_)
SumCtr(S) ==
    IF S = {} THEN 0
    ELSE LET n == CHOOSE k \in S : TRUE
         IN  Runs[n].campaigns[1].budget_data.campaign_ctr + SumCtr(S \ {n})

\* C29: when at least 2 earlier periods have their snapshot persisted and the
\* campaign's CTR of the current period is below half the average CTR of
\* those periods, the run emits the CTR-collapse alert.
C29_CtrCollapseInWeeklyReview ==
    (/\ HasRun
     /\ Completed(LastRun)
     /\ Cardinality(EarlierSnapshots) >= 2
     /\ 2 * Cardinality(EarlierSnapshots) *
            LastRun.campaigns[1].budget_data.campaign_ctr < SumCtr(EarlierSnapshots)) =>
        \E i \in 1..Len(LastRun.alerts) : LastRun.alerts[i] = CtrAlert

(***************************************************************************)
(* Properties of the image registry bootstrap                              *)
(***************************************************************************)

\* the asset resources the latest run found enabled in an enabled asset group
\* of the campaign
LiveInLatestRun(campaign_name) ==
    UNION {{event.google_ads[campaign_name][g].rows[k].asset_resource :
                k \in 1..Len(event.google_ads[campaign_name][g].rows)} :
           g \in {h \in 1..Len(event.google_ads[campaign_name]) :
                     event.google_ads[campaign_name][h].status = "ENABLED"}}

\* no run so far met a row it could not process
NoRowErrors ==
    \A i \in 1..Len(review.log) :
        \A j \in 1..Len(review.log[i]) : review.log[i][j].errors = 0

\* the pictures the registry holds linked to the campaign
LinkedPictures(campaign_name) ==
    {store.image_registry[i].image_hash :
        i \in get_images_for_campaign(store.image_registry, campaign_name)}

\* some image of the registry has two mappings of one asset resource
TwoMappingsOfOneAsset ==
    \E i \in 1..Len(store.image_registry) :
        \E k, l \in 1..Len(store.image_registry[i].google_ads_assets) :
            /\ k # l
            /\ store.image_registry[i].google_ads_assets[k].asset_resource
                   = store.image_registry[i].google_ads_assets[l].asset_resource

\* C30: after runs of the bootstrap without row errors, the images linked to
\* a campaign are exactly the images of the asset resources that were live in
\* the latest run, assets unlinked by an earlier run and live again included,
\* and no image has two mappings of the same asset resource
C30_RegistryMirrorsLatestBootstrap ==
    (pc = "bootstrap" /\ review.runs > 0 /\ NoRowErrors) =>
        /\ \A c \in BootstrapCampaigns :
               LinkedPictures(c) = {BytesOf(a) : a \in LiveInLatestRun(c)}
        /\ ~TwoMappingsOfOneAsset

=============================================================================
